---- MODULE Spec2Model ----
(***************************************************************************)
(* Gekko3 Gatekeeper (src/src/GatekeeperDO.ts): the risk gate that         *)
(* evaluates signed trade proposals against the Constitution               *)
(* (src/src/config.ts), executes approved ones at the broker               *)
(* (src/src/lib/tradier.ts) and records everything in the D1 ledger        *)
(* (src/schema.sql).                                                       *)
(*                                                                         *)
(* A request handler is one action per stretch of code between two points  *)
(* at which the Durable Object can deliver another event (an awaited       *)
(* broker fetch or an awaited D1 statement); blockConcurrencyWhile and the *)
(* Durable Object storage API do not open such a point.                    *)
(*                                                                         *)
(* Units: equity in units of 100 dollars; loss fractions in basis points;  *)
(* VIX in hundredths; the clock `now` in minutes of the ET trading day;     *)
(* proposal prices in thousandths of a dollar, order prices in cents.      *)
(***************************************************************************)
EXTENDS Integers, Sequences, FiniteSets, TLC

\* ---------------------------------------------------------------- bounds
MaxEvents == 3       \* external events (requests, broker changes, restarts)
MaxTicks == 1        \* minutes the clock may advance

Slots == {1, 2}      \* requests that can be in flight at the same time
PropIds == {1, 2}    \* proposal ids the Brain may send (a replay reuses one)

\* ---------------------------------------------------- CONSTITUTION (config.ts)
allowedSymbols == {"SPY", "QQQ", "IWM", "DIA"}
allowedStrategies == {"CREDIT_SPREAD", "IRON_CONDOR", "IRON_BUTTERFLY", "RATIO_SPREAD"}
\* allowedStrategies of the CONSTITUTION at config.ts lines 145-184
allowedStrategiesWithCalendar == allowedStrategies \cup {"CALENDAR_SPREAD"}
maxOpenPositions == 20
maxConcentrationPerSymbol == 20
maxDailyLossBp == 200
minDte == 0
maxDte == 60
\* variant: the index group is missing from the configuration
correlationGroups_techOnly == <<[name |-> "TECH", symbols |-> {"QQQ", "XLK"}]>>
correlationGroups == <<[name |-> "US_INDICES", symbols |-> {"SPY", "QQQ", "IWM", "DIA"}],
                       [name |-> "TECH", symbols |-> {"QQQ", "XLK"}]>>
maxCorrelatedPositions == 2
maxTotalPositions == 5
staleProposalMs == 10000
forceEodCloseEt == 945
EQUITY_CACHE_TTL_MS == 60000

\* ------------------------------------------------------------ value spaces
Undefined == [kind |-> "undefined", pct |-> 0]
NoEquity == 0 - 1                   \* startOfDayEquity === undefined
NoCache == [value |-> 0 - 1, timestamp |-> 0 - 1]
NoVix == 0 - 1                      \* context.vix absent
NoExpiration == 0 - 999            \* leg.expiration absent
NoPrice == 0 - 1                    \* proposal.price undefined or null
NoClose == 0 - 1                    \* forceEodCloseEt: null
NoDate == 0 - 1                     \* position.date_acquired absent
Absent == "absent"                  \* context.flow_state / trend_state absent
UtcOffset == 300                    \* minutes from ET to UTC

BrokerEquities == {1000, 981, 980, 979}
DateSets == {{}, {"D0"}, {"D1"}}
LockReasons == {[kind |-> "Manual lock", pct |-> 0], [kind |-> "halt", pct |-> 0]}

\* ----------------------------------------------------------------- state
VARIABLES
  mem,      \* fields of the GatekeeperDO instance (lost on restart)
  db,       \* D1 ledger: system_status, proposals, orders, positions
  storage,  \* Durable Object key-value storage
  broker,   \* the brokerage account: equity, positions, orders
  req,      \* per slot: the request in flight and its position in the handler
  now,      \* minutes of the ET day
  events,   \* external events so far
  script,   \* what the Brain sends in this run: the core set or one proposal
  inflight, \* how many proposal requests the run lets overlap
  tracked   \* the Brain's tracked position and the outcome of its last monitoring pass

vars == <<mem, db, storage, broker, req, now, events, script, inflight, tracked>>

\* The Brain tracks no position, and no monitoring pass has run.
NoTracked ==
  [pos |-> [strategy |-> "none", entry_price |-> 0, legs |-> <<>>,
            highest_pnl_seen |-> 0, status |-> "none"],
   out |-> [evaluated |-> FALSE, cost_to_close |-> 0, pnl |-> 0, pnl_pct |-> 0]]


W == [mem |-> mem, db |-> db, storage |-> storage, broker |-> broker]

\* ------------------------------------------------------------- arithmetic
CeilDiv(a, b) == 0 - ((0 - a) \div b)

\* (x * 10000 / y) rounded to the nearest integer, as toFixed(2) of a percentage
RoundBp(x, y) == (x * 20000 + y) \div (2 * y)

\* JavaScript falsiness of this.startOfDayEquity (undefined or 0)
Unset(e) == e = NoEquity \/ e = 0

\* --------------------------------------------------- GatekeeperDO helpers

\* calculateDTE: the expiration is a date (UTC midnight, expDay days after the
\* current UTC date); the clock is ET minutes, UTC is five hours ahead.
calculateDTE(expDay) == CeilDiv(expDay * 1440 - (now + UtcOffset), 1440)

\* getCurrentTimeET, in minutes of the day
getCurrentTimeET == now

\* new Date().toISOString().split('T')[0]: the UTC date, D0 being the ET date
Today == IF now + UtcOffset < 1440 THEN "D0" ELSE "D1"

\* tradierClient.getPositions: rows without symbol or with quantity 0 are dropped
getPositions(w) == SelectSeq(w.broker.positions, LAMBDA r : r.symbol[1] # "" /\ r.quantity # 0)

\* initializeState (under blockConcurrencyWhile); balOk: getBalances succeeds
initializeState(w, balOk) ==
  LET m1 == [w.mem EXCEPT !.systemLocked = (w.db.system_status = "LOCKED"),
                          !.restrictedDates = w.storage.restrictedDates]
      m2 == IF Unset(m1.startOfDayEquity) /\ balOk
              THEN [m1 EXCEPT !.startOfDayEquity = w.broker.equity]
              ELSE m1
  IN [w EXCEPT !.mem = m2]

\* lines 264-267: the date_acquired bound to the INSERT: the broker's date as
\* a timestamp, or the time of the reconciliation when the broker gives none
dateAcquired(p) == IF p.date_acquired = NoDate THEN now ELSE p.date_acquired

\* the positions rows written by syncAccountState for a broker answer
PositionRows(ps) == {[ps[i] EXCEPT !.date_acquired = dateAcquired(ps[i])] : i \in 1..Len(ps)}

\* UNIQUE(symbol, date_acquired) of the positions table holds for a batch
BatchUnique(ps) ==
  \A i, j \in 1..Len(ps) :
     (ps[i].symbol = ps[j].symbol /\ dateAcquired(ps[i]) = dateAcquired(ps[j])) => i = j

\* syncAccountState; balOk / posOk: getBalances / getPositions succeed;
\* delOk / batchOk: the DELETE / the batch of INSERTs is run by D1 (a batch is
\* one transaction, and it also fails on a UNIQUE violation)
syncAccountStateD1(w, balOk, posOk, delOk, batchOk) ==
  IF ~balOk THEN w
  ELSE
    LET m1 == [w.mem EXCEPT !.equityCache = [value |-> w.broker.equity, timestamp |-> now],
                            !.startOfDayEquity =
                                IF Unset(@) THEN w.broker.equity ELSE @]
        real == getPositions(w)
    IN IF ~posOk \/ ~delOk THEN [w EXCEPT !.mem = m1]
       ELSE IF Len(real) = 0 THEN [w EXCEPT !.mem = m1, !.db.positions = {}]
       ELSE IF batchOk /\ BatchUnique(real)
              THEN [w EXCEPT !.mem = m1, !.db.positions = PositionRows(real)]
              ELSE [w EXCEPT !.mem = m1, !.db.positions = {}]

\* syncAccountState while D1 runs every statement it is given
syncAccountState(w, balOk, posOk) == syncAccountStateD1(w, balOk, posOk, TRUE, TRUE)

CacheValid(m) ==
  m.equityCache # NoCache /\ (now - m.equityCache.timestamp) * 60000 < EQUITY_CACHE_TTL_MS

\* getCurrentEquity: returns the world and the value
getCurrentEquity(w, balOk) ==
  IF CacheValid(w.mem) THEN [w |-> w, value |-> w.mem.equityCache.value]
  ELSE IF balOk
    THEN [w |-> [w EXCEPT !.mem.equityCache = [value |-> w.broker.equity, timestamp |-> now],
                          !.mem.startOfDayEquity =
                               IF Unset(@) THEN w.broker.equity ELSE @],
          value |-> w.broker.equity]
    ELSE [w |-> w,
          value |-> IF w.mem.equityCache # NoCache THEN w.mem.equityCache.value
                    ELSE IF w.mem.startOfDayEquity # NoEquity THEN w.mem.startOfDayEquity
                    ELSE 0]

\* getDailyLossPercent: the loss as the fraction num / den (den > 0)
getDailyLossPercent(w, balOk) ==
  LET ce == getCurrentEquity(w, balOk)
      sod == ce.w.mem.startOfDayEquity
  IN IF Unset(sod) THEN [w |-> ce.w, num |-> 0, den |-> 1]
     ELSE [w |-> ce.w, num |-> sod - ce.value, den |-> sod]

\* variant: the limit itself is not a breach
LossBreach_strict(dl) == dl.num * 10000 > maxDailyLossBp * dl.den

\* dailyLossPercent >= CONSTITUTION.maxDailyLossPercent
LossBreach(dl) == dl.num * 10000 >= maxDailyLossBp * dl.den

\* getOpenPositionsCount: COUNT(DISTINCT symbol) WHERE quantity != 0
getOpenPositionsCount(w) ==
  Cardinality({r.symbol : r \in {x \in w.db.positions : x.quantity # 0}})

\* getSymbolPositionCount: COUNT(*) WHERE symbol = ? AND quantity != 0
getSymbolPositionCount(w, symbol) ==
  Cardinality({r \in w.db.positions : r.symbol = <<symbol, 0>> /\ r.quantity # 0})

\* getOpenPositionMetadata: the stored entries (by order id)
getOpenPositionMetadata(w) == w.storage.positionMetadata

\* lockSystem / unlockSystem
lockSystem(w, reason) ==
  [w EXCEPT !.mem.systemLocked = TRUE, !.mem.lockReason = reason,
            !.db.system_status = "LOCKED"]

unlockSystem(w) ==
  [w EXCEPT !.mem.systemLocked = FALSE, !.mem.lockReason = Undefined,
            !.db.system_status = "NORMAL"]

\* updateCalendar
updateCalendar(w, dates) ==
  [w EXCEPT !.mem.restrictedDates = dates, !.storage.restrictedDates = dates]


\* ------------------------------------------------------ evaluateProposal
NoArg == [kind |-> "", pct |-> 0]
Rejected(w, rule, arg) ==
  [w |-> w, status |-> "REJECTED", rejectionReason |-> [rule |-> rule, arg |-> arg]]
Approved(w) ==
  [w |-> w, status |-> "APPROVED", rejectionReason |-> [rule |-> "", arg |-> NoArg]]

\* the shared secret (env.API_SECRET), a secret that is not the shared one, the
\* absent signature header and a header that is no HMAC at all
API_SECRET == "API_SECRET"
OtherSecret == "other secret"
NoSig == <<>>
BadSig == <<"bad">>

\* HMAC-SHA256 in lowercase hex, taken as collision-free: the digest stands
\* for the key and the message it was computed from
hmac(secret, message) == <<secret, message>>

\* the payload as the Gate serialises it: the proposal without its signature,
\* the top-level keys sorted, every other field with its value (age stands for
\* the timestamp). JSON.stringify writes the keys of the nested objects (legs,
\* context) in the order of the parsed body: the optional field keyOrder of a
\* body says how it orders its keys, and where the nested keys are not in
\* sorted order that order is part of the serialisation
payloadForSigning(p) ==
  LET fields == DOMAIN p \ {"signature", "keyOrder"} IN
  IF "keyOrder" \in DOMAIN p /\ p.keyOrder.nested # "sorted"
    THEN [k \in fields \cup {"keyOrder"} |-> IF k = "keyOrder" THEN p.keyOrder.nested ELSE p[k]]
    ELSE [k \in fields |-> p[k]]

\* A check that only requires the signature header to be present.
verifySignature_presentOnly(p) == p.signature # NoSig

\* verifySignature: the provided signature is not empty and equals the HMAC
\* of the payload under the shared secret
verifySignature(p) ==
  /\ p.signature # NoSig
  /\ p.signature = hmac(API_SECRET, payloadForSigning(p))

\* the canonical payload of the Brain's Gate Client: the proposal without its
\* signature, object keys sorted at every depth
canonicalPayload(p) == [k \in DOMAIN p \ {"signature", "keyOrder"} |-> p[k]]

\* the Brain's Gate Client: signs the canonical payload with the secret
Sign(secret, p) == [p EXCEPT !.signature = hmac(secret, canonicalPayload(p))]

\* `System is locked: ${this.lockReason ?? 'Unknown reason'}`
LockedArg(m) ==
  IF m.lockReason = Undefined THEN [kind |-> "Unknown reason", pct |-> 0] ELSE m.lockReason

\* variant: the threshold itself is stale
IsStale_atLimit(p) == p.age >= staleProposalMs

\* 3. Freshness check
IsStale(p) == p.age > staleProposalMs

\* variant: a ratio spread is not asked for unequal quantities
StructureError_noRatio(p) ==
  LET legCount == Len(p.legs) IN
  CASE p.strategy \in {"CREDIT_SPREAD", "RATIO_SPREAD"} ->
         IF legCount # 2 THEN "CREDIT_SPREAD must have exactly 2 legs" ELSE ""
    [] p.strategy \in {"IRON_CONDOR", "IRON_BUTTERFLY"} ->
         IF legCount # 4 THEN "IRON_CONDOR must have exactly 4 legs" ELSE ""
    [] OTHER -> "Unknown strategy structure"

\* 4.b structure validation (the switch on proposal.strategy); "" when it passes
StructureError(p) ==
  LET legCount == Len(p.legs) IN
  CASE p.strategy = "CREDIT_SPREAD" ->
         IF legCount # 2 THEN "CREDIT_SPREAD must have exactly 2 legs" ELSE ""
    [] p.strategy = "IRON_CONDOR" ->
         IF legCount # 4 THEN "IRON_CONDOR must have exactly 4 legs" ELSE ""
    [] p.strategy = "IRON_BUTTERFLY" ->
         IF legCount # 4 THEN "IRON_BUTTERFLY must have exactly 4 legs" ELSE ""
    [] p.strategy = "RATIO_SPREAD" ->
         IF legCount # 2 THEN "RATIO_SPREAD must have exactly 2 legs"
         ELSE IF p.legs[1].quantity = p.legs[2].quantity
                THEN "RATIO_SPREAD must have unequal quantities" ELSE ""
    [] OTHER -> "Unknown strategy structure"

\* DTE check on the first leg; "" when it passes
DteError(p) ==
  IF Len(p.legs) = 0 THEN "Proposal must have at least one leg"
  ELSE IF p.legs[1].expiration = NoExpiration THEN "Leg expiration date is required"
  ELSE LET dte == calculateDTE(p.legs[1].expiration) IN
       IF dte < minDte \/ dte > maxDte THEN "DTE out of range" ELSE ""

\* 6. correlation guard: the first group that lists the symbol, "" if none
GroupOf(symbol) ==
  LET idx == {i \in 1..Len(correlationGroups) : symbol \in correlationGroups[i].symbols}
  IN IF idx = {} THEN ""
     ELSE correlationGroups[CHOOSE i \in idx : \A j \in idx : i <= j].name

GroupSymbols(name) ==
  (CHOOSE g \in {correlationGroups[i] : i \in 1..Len(correlationGroups)} : g.name = name).symbols

correlatedCount(w, groupName, bias) ==
  LET md == getOpenPositionMetadata(w) IN
  Cardinality({k \in DOMAIN md : md[k].symbol \in GroupSymbols(groupName) /\ md[k].bias = bias})

\* variant: the limit itself is still allowed
CorrelationHit_above(w, p) ==
  LET bias == p.context.trend_state
      groupName == GroupOf(p.symbol)
  IN /\ bias # Absent /\ bias # "neutral"
     /\ groupName # ""
     /\ correlatedCount(w, groupName, bias) > maxCorrelatedPositions

CorrelationHit(w, p) ==
  LET bias == p.context.trend_state
      groupName == GroupOf(p.symbol)
  IN /\ bias # Absent /\ bias # "neutral"
     /\ groupName # ""
     /\ correlatedCount(w, groupName, bias) >= maxCorrelatedPositions

\* variant: the VIX limit itself is rejected
ContextError_atLimit(p) ==
  IF p.context.vix = NoVix THEN "VIX not available"
  ELSE IF p.context.vix >= 2800 THEN "VIX too high"
  ELSE IF p.context.flow_state = "UNKNOWN" THEN "Flow state is UNKNOWN"
  ELSE ""

\* 6. context checks (OPEN); "" when they pass
ContextError(p) ==
  IF p.context.vix = NoVix THEN "VIX not available"
  ELSE IF p.context.vix > 2800 THEN "VIX too high"
  ELSE IF p.context.flow_state = "UNKNOWN" THEN "Flow state is UNKNOWN"
  ELSE ""

\* variant: the checks made for OPEN proposals are made for CLOSE proposals too
OpenOnly_always(p) == TRUE

\* `if (proposal.side === 'OPEN')`: the guard of the checks a CLOSE skips
OpenOnly(p) == p.side = "OPEN"

\* variant: a context rejection also locks the system
evaluateRisk_locking(w, p) ==
  IF OpenOnly(p) /\ ContextError(p) # ""
    THEN Rejected(lockSystem(w, [kind |-> ContextError(p), pct |-> 0]), ContextError(p), NoArg)
  ELSE Approved(w)

\* the checks after the daily-loss check (lines 471-561)
evaluateRisk(w, p) ==
  IF OpenOnly(p) /\ getOpenPositionsCount(w) >= maxOpenPositions
    THEN Rejected(w, "Max open positions reached", NoArg)
  ELSE IF OpenOnly(p) /\ CorrelationHit(w, p)
    THEN Rejected(w, "Correlation Limit Hit",
                  [kind |-> GroupOf(p.symbol),
                   pct |-> correlatedCount(w, GroupOf(p.symbol), p.context.trend_state)])
  ELSE IF OpenOnly(p) /\ getSymbolPositionCount(w, p.symbol) >= maxConcentrationPerSymbol
    THEN Rejected(w, "Max concentration per symbol reached", NoArg)
  ELSE IF OpenOnly(p) /\ ContextError(p) # ""
    THEN Rejected(w, ContextError(p), NoArg)
  ELSE Approved(w)

\* 5. daily loss check: locks the system on a breach
evaluateDailyLoss(w, p, balOk) ==
  LET dl == getDailyLossPercent(w, balOk) IN
  IF LossBreach(dl)
    THEN Rejected(lockSystem(dl.w, [kind |-> "Daily loss limit exceeded",
                                    pct |-> RoundBp(dl.num, dl.den)]),
                  "Daily loss limit exceeded",
                  [kind |-> "pct", pct |-> RoundBp(dl.num, dl.den)])
    ELSE evaluateRisk(dl.w, p)

\* variant: the freshness check comes before the lock check
evaluateProposal_staleFirst(w, p, balOk) ==
  IF ~verifySignature(p) THEN Rejected(w, "Invalid signature", NoArg)
  ELSE IF IsStale(p) THEN Rejected(w, "Proposal is stale", NoArg)
  ELSE IF w.mem.systemLocked THEN Rejected(w, "System is locked", LockedArg(w.mem))
  ELSE IF p.symbol \notin allowedSymbols THEN Rejected(w, "Symbol not allowed", NoArg)
  ELSE IF OpenOnly(p) /\ p.strategy \notin allowedStrategies
    THEN Rejected(w, "Strategy not allowed", NoArg)
  ELSE IF p.price <= 0 THEN Rejected(w, "Limit Price is required for safety", NoArg)
  ELSE IF OpenOnly(p) /\ StructureError(p) # "" THEN Rejected(w, StructureError(p), NoArg)
  ELSE IF OpenOnly(p) /\ DteError(p) # "" THEN Rejected(w, DteError(p), NoArg)
  ELSE IF OpenOnly(p) /\ Today \in w.mem.restrictedDates
    THEN Rejected(w, "Trading suspended for Event Risk (Calendar Lock)", NoArg)
  ELSE evaluateDailyLoss(w, p, balOk)

\* evaluateProposal from the signature check on, under a CONSTITUTION that
\* lists `strategies` as allowedStrategies; initializeState and
\* syncAccountState have run before
evaluateProposalUnder(strategies, w, p, balOk) ==
  IF ~verifySignature(p) THEN Rejected(w, "Invalid signature", NoArg)
  ELSE IF w.mem.systemLocked THEN Rejected(w, "System is locked", LockedArg(w.mem))
  ELSE IF IsStale(p) THEN Rejected(w, "Proposal is stale", NoArg)
  ELSE IF p.symbol \notin allowedSymbols THEN Rejected(w, "Symbol not allowed", NoArg)
  ELSE IF OpenOnly(p) /\ p.strategy \notin strategies
    THEN Rejected(w, "Strategy not allowed", NoArg)
  ELSE IF p.price <= 0 THEN Rejected(w, "Limit Price is required for safety", NoArg)
  ELSE IF OpenOnly(p) /\ StructureError(p) # "" THEN Rejected(w, StructureError(p), NoArg)
  ELSE IF OpenOnly(p) /\ DteError(p) # "" THEN Rejected(w, DteError(p), NoArg)
  ELSE IF OpenOnly(p) /\ Today \in w.mem.restrictedDates
    THEN Rejected(w, "Trading suspended for Event Risk (Calendar Lock)", NoArg)
  ELSE evaluateDailyLoss(w, p, balOk)

\* evaluateProposal under the CONSTITUTION of config.ts lines 9-46
evaluateProposal(w, p, balOk) == evaluateProposalUnder(allowedStrategies, w, p, balOk)


\* ------------------------------------------------------------- proposals
Leg(occ, side, qty, exp) ==
  [symbol |-> occ, side |-> side, quantity |-> qty, expiration |-> exp]

\* a bull put spread on SPY, 30 DTE (scenario S1)
Legs2 == <<Leg(<<"SPY", 1>>, "SELL", 1, 30), Leg(<<"SPY", 2>>, "BUY", 1, 30)>>

Unsigned(id) ==
  [id |-> id, signature |-> NoSig, age |-> 0, symbol |-> "SPY",
   strategy |-> "CREDIT_SPREAD", side |-> "OPEN", quantity |-> 1, price |-> 550,
   legs |-> Legs2,
   context |-> [vix |-> 1800, flow_state |-> "RISK_ON", trend_state |-> "bullish"]]

GoodOpen(id) == Sign(API_SECRET, Unsigned(id))

GoodClose(id) == Sign(API_SECRET, [Unsigned(id) EXCEPT !.side = "CLOSE"])

CoreProposals ==
  UNION {{GoodOpen(id), GoodClose(id),
          Unsigned(id),
          [GoodClose(id) EXCEPT !.signature = BadSig],
          Sign(API_SECRET, [Unsigned(id) EXCEPT !.context.vix = 2801])} : id \in PropIds}

NoProposal == Unsigned(0)

\* ------------------------------------------------------------- responses
NoReason == [rule |-> "", arg |-> NoArg]
NoResp == [code |-> 0, status |-> "", reason |-> NoReason, order_id |-> 0]
Resp(code, status, reason, order) ==
  [code |-> code, status |-> status, reason |-> reason, order_id |-> order]

Idle == [pc |-> "idle", p |-> NoProposal, status |-> "", rejectionReason |-> NoReason,
         order_id |-> 0, resp |-> NoResp]

Free(s) == req[s].pc \in {"idle", "done"}
Busy(s) == ~Free(s)

SetW(w) ==
  /\ mem' = w.mem
  /\ db' = w.db
  /\ storage' = w.storage
  /\ broker' = w.broker

\* -------------------------------------------------------------------- Init
InitMem ==
  [systemLocked |-> FALSE, lockReason |-> Undefined, startOfDayEquity |-> NoEquity,
   equityCache |-> NoCache, lastHeartbeat |-> 0, restrictedDates |-> {}]

\* the proposals the Brain may send in this run
\* signed OPENs and CLOSEs of one (symbol, strategy) under fresh ids
LockstepProposals == UNION {{GoodOpen(id), GoodClose(id)} : id \in {3, 4, 5}}

Script ==
  IF script.brain = "core" THEN CoreProposals
  ELSE IF script.brain = "lockstep" THEN LockstepProposals
  ELSE {script.p}

Init ==
  /\ mem = InitMem
  /\ db = [system_status |-> "NORMAL", proposals |-> <<>>, orders |-> <<>>, positions |-> {}]
  /\ storage = [restrictedDates |-> {}, positionMetadata |-> <<>>,
                startOfDayEquity |-> NoEquity, startOfDayTimestamp |-> NoEquity]
  /\ broker = [equity |-> 1000, positions |-> <<>>, orders |-> <<>>]
  /\ req = [s \in Slots |-> Idle]
  /\ now = forceEodCloseEt - 1
  /\ events = 0
  /\ script = [brain |-> "core", p |-> NoProposal]
  /\ inflight = 1
  /\ tracked = NoTracked


\* ------------------------------------------------------- processProposal
LowestFree == CHOOSE s \in Slots : Free(s) /\ \A t \in Slots : Free(t) => s <= t

\* lines 589-604 and 286: signature header, body, initializeState
ProposalReceive(p) ==
  /\ events < MaxEvents
  /\ p \in Script
  /\ Cardinality({s \in Slots : Busy(s)}) < inflight
  /\ LET s == LowestFree IN
     IF p.signature = NoSig
       THEN /\ req' = [req EXCEPT ![s] =
                         [Idle EXCEPT !.pc = "done", !.p = p,
                                      !.resp = Resp(401, "", [rule |-> "Missing signature",
                                                              arg |-> NoArg], 0)]]
            /\ UNCHANGED <<mem, db, storage, broker>>
       ELSE /\ req' = [req EXCEPT ![s] = [Idle EXCEPT !.pc = "sync", !.p = p]]
            /\ \E w \in {initializeState(W, balOk) : balOk \in BOOLEAN} : SetW(w)
  /\ events' = events + 1
  /\ UNCHANGED <<now, script, inflight, tracked>>

\* line 290: syncAccountState
ProposalSync(s) ==
  /\ req[s].pc = "sync"
  /\ \E w \in {syncAccountState(W, balOk, posOk) : balOk, posOk \in BOOLEAN} : SetW(w)
  /\ req' = [req EXCEPT ![s].pc = "eval"]
  /\ UNCHANGED <<now, events, script, inflight, tracked>>

\* lines 292-562: the checks of evaluateProposal
ProposalEvaluate(s) ==
  /\ req[s].pc = "eval"
  /\ \E ev \in {evaluateProposal(W, req[s].p, balOk) : balOk \in BOOLEAN} :
       /\ SetW(ev.w)
       /\ req' = [req EXCEPT ![s].pc = "record", ![s].status = ev.status,
                             ![s].rejectionReason = ev.rejectionReason]
  /\ UNCHANGED <<now, events, script, inflight, tracked>>

\* line 290: syncAccountState, with D1 failing or not
ProposalSyncD1(s) ==
  /\ req[s].pc = "sync"
  /\ \E w \in {syncAccountStateD1(W, balOk, posOk, delOk, batchOk) :
                 balOk, posOk, delOk, batchOk \in BOOLEAN} : SetW(w)
  /\ req' = [req EXCEPT ![s].pc = "eval"]
  /\ UNCHANGED <<now, events, script, inflight, tracked>>

ProposalRow(r) ==
  [symbol |-> r.p.symbol, strategy |-> r.p.strategy, side |-> r.p.side,
   status |-> r.status, rejection_reason |-> r.rejectionReason]

\* variant: the INSERT replaces a row that has the same id
ProposalRecord_replacing(s) ==
  /\ req[s].pc = "record"
  /\ LET r == req[s] IN
     /\ db' = [db EXCEPT !.proposals =
                  [id \in DOMAIN @ \cup {r.p.id} |-> IF id = r.p.id THEN ProposalRow(r) ELSE @[id]]]
     /\ req' = [req EXCEPT
           ![s].pc = IF r.status = "REJECTED" THEN "done" ELSE "exec",
           ![s].resp = IF r.status = "REJECTED"
                         THEN Resp(403, "REJECTED", r.rejectionReason, 0)
                         ELSE NoResp]
  /\ UNCHANGED <<mem, storage, broker, now, events, script, inflight, tracked>>

\* lines 606-648: INSERT INTO proposals (id is the PRIMARY KEY), 403 when rejected
ProposalRecord(s) ==
  /\ req[s].pc = "record"
  /\ LET r == req[s] IN
     IF r.p.id \in DOMAIN db.proposals
       THEN /\ req' = [req EXCEPT ![s].pc = "done",
                         ![s].resp = Resp(400, "", [rule |-> "UNIQUE constraint failed",
                                                    arg |-> NoArg], 0)]
            /\ UNCHANGED db
       ELSE /\ db' = [db EXCEPT !.proposals = @ @@ (r.p.id :> ProposalRow(r))]
            /\ req' = [req EXCEPT
                  ![s].pc = IF r.status = "REJECTED" THEN "done" ELSE "exec",
                  ![s].resp = IF r.status = "REJECTED"
                                THEN Resp(403, "REJECTED", r.rejectionReason, 0)
                                ELSE NoResp]
  /\ UNCHANGED <<mem, storage, broker, now, events, script, inflight, tracked>>

supportedStrategies == {"CREDIT_SPREAD", "IRON_CONDOR", "IRON_BUTTERFLY", "RATIO_SPREAD"}

\* variant: a CLOSE keeps the direction of the leg
MapSide_sameDirection(side, legSide) ==
  IF side = "OPEN"
    THEN (IF legSide = "SELL" THEN "sell_to_open" ELSE "buy_to_open")
    ELSE (IF legSide = "SELL" THEN "sell_to_close" ELSE "buy_to_close")

\* lines 669-681: the side of a broker leg
MapSide(side, legSide) ==
  IF side = "OPEN"
    THEN (IF legSide = "SELL" THEN "sell_to_open" ELSE "buy_to_open")
    ELSE (IF legSide = "SELL" THEN "buy_to_close" ELSE "sell_to_close")

\* lines 665-697: the multileg order payload
BuildOrder(p) ==
  [class |-> "multileg", symbol |-> p.symbol,
   type |-> IF p.side = "OPEN" THEN "credit" ELSE "debit",
   price |-> p.price, duration |-> "day",
   legs |-> [i \in 1..Len(p.legs) |->
               [option_symbol |-> p.legs[i].symbol,
                side |-> MapSide(p.side, p.legs[i].side),
                quantity |-> p.legs[i].quantity]]]

\* price.toFixed(2): thousandths of a dollar rounded to cents
toFixed2(x) == (x + 5) \div 10

\* the form body placeOrder posts: the price formatted with two decimals
orderBody(payload) == [payload EXCEPT !.price = toFixed2(@)]

\* tradierClient.placeOrder accepted by the broker: a new order id
placeOrder(b, payload, pid) ==
  [b EXCEPT !.orders = Append(@, [id |-> Len(@) + 1, proposal |-> pid,
                                  status |-> "pending", payload |-> orderBody(payload)])]

\* variant: the failure is answered by the outer handler
executionFailed_outer(r) ==
  [r EXCEPT !.pc = "done",
            !.resp = Resp(400, "", [rule |-> "error", arg |-> NoArg], 0)]

\* lines 767-779: the catch of the execution block
executionFailed(r) ==
  [r EXCEPT !.pc = "done",
            !.resp = Resp(500, "APPROVED_BUT_EXECUTION_FAILED",
                          [rule |-> "error", arg |-> NoArg], 0)]

\* lines 650-701: execution; brokerOk: the broker accepts the order
ProposalExecute(s) ==
  /\ req[s].pc = "exec"
  /\ LET p == req[s].p IN
     \E brokerOk \in BOOLEAN :
       IF (p.side = "CLOSE" \/ p.strategy \in supportedStrategies) /\ brokerOk
         THEN /\ broker' = placeOrder(broker, BuildOrder(p), p.id)
              /\ req' = [req EXCEPT ![s].pc = "post",
                                    ![s].order_id = Len(broker.orders) + 1]
         ELSE /\ req' = [req EXCEPT ![s] = executionFailed(@)]
              /\ UNCHANGED broker
  /\ UNCHANGED <<mem, db, storage, now, events, script, inflight, tracked>>

\* savePositionMetadata / removePositionMetadata
savePositionMetadata(st, tradeId, data) ==
  [st EXCEPT !.positionMetadata =
     [k \in (DOMAIN @) \cup {tradeId} |-> IF k = tradeId THEN data ELSE @[k]]]

removePositionMetadata(st, tradeId) ==
  [st EXCEPT !.positionMetadata = [k \in (DOMAIN @) \ {tradeId} |-> @[k]]]

\* lines 740-749: the most recent order of an OPEN proposal for (symbol, strategy); 0 if none
orderLookup(d, symbol, strategy) ==
  LET idx == {i \in 1..Len(d.orders) :
                /\ d.orders[i].proposal_id \in DOMAIN d.proposals
                /\ d.proposals[d.orders[i].proposal_id].symbol = symbol
                /\ d.proposals[d.orders[i].proposal_id].strategy = strategy
                /\ d.proposals[d.orders[i].proposal_id].side = "OPEN"}
  IN IF idx = {} THEN 0
     ELSE d.orders[CHOOSE i \in idx : \A j \in idx : j <= i].id

\* lines 703-766: orders row, position metadata, 200
ProposalPost(s) ==
  /\ req[s].pc = "post"
  /\ LET p == req[s].p
         oid == req[s].order_id
         found == orderLookup(db', p.symbol, p.strategy)
     IN /\ db' = [db EXCEPT !.orders = Append(@, [id |-> oid, proposal_id |-> p.id,
                                                  symbol |-> p.symbol, status |-> "pending",
                                                  quantity |-> p.quantity])]
        /\ storage' =
             IF p.side = "OPEN"
               THEN savePositionMetadata(storage, oid,
                      [symbol |-> p.symbol,
                       bias |-> IF p.context.trend_state \in {Absent, ""}
                                  THEN "neutral" ELSE p.context.trend_state,
                       strategy |-> p.strategy])
               ELSE IF found # 0 THEN removePositionMetadata(storage, found)
               ELSE storage
        /\ req' = [req EXCEPT ![s].pc = "done",
                              ![s].resp = Resp(200, "APPROVED", NoReason, oid)]
  /\ UNCHANGED <<mem, broker, now, events, script, inflight, tracked>>


\* -------------------------------------------------------- admin endpoints
\* lockSystemEndpoint (reason defaults to 'Manual lock')
Lock(reason) ==
  /\ events < MaxEvents
  /\ SetW(lockSystem(W, reason))
  /\ events' = events + 1
  /\ UNCHANGED <<req, now, script, inflight, tracked>>

\* unlockSystemEndpoint
Unlock ==
  /\ events < MaxEvents
  /\ SetW(unlockSystem(W))
  /\ events' = events + 1
  /\ UNCHANGED <<req, now, script, inflight, tracked>>

\* fetch, path /admin/calendar
Calendar(dates) ==
  /\ events < MaxEvents
  /\ SetW(updateCalendar(W, dates))
  /\ events' = events + 1
  /\ UNCHANGED <<req, now, script, inflight, tracked>>

\* emergencyCloseAll: lock, then cancel the pending orders of every symbol of the
\* positions snapshot; cancelled: the orders whose cancel call succeeds
PendingForPositions(d) ==
  {d.orders[i].id : i \in {j \in 1..Len(d.orders) :
       /\ d.orders[j].status = "pending"
       /\ \E r \in d.positions : r.quantity # 0 /\ r.symbol = <<d.orders[j].symbol, 0>>}}

cancelOrders(w, cancelled) ==
  [w EXCEPT !.broker.orders =
     [i \in 1..Len(@) |-> IF @[i].id \in cancelled
                            THEN [@[i] EXCEPT !.status = "cancelled"] ELSE @[i]]]

\* variant: the lock comes after the cancels, and only if none of them failed
emergencyCloseAll_lockLast(w, cancelled) ==
  IF cancelled = PendingForPositions(w.db)
    THEN lockSystem(cancelOrders(w, cancelled),
                    [kind |-> "Emergency liquidation initiated", pct |-> 0])
    ELSE cancelOrders(w, cancelled)

\* lines 834-835 lock first; lines 843-858 cancel, a failed cancel is only logged
emergencyCloseAll(w, cancelled) ==
  cancelOrders(lockSystem(w, [kind |-> "Emergency liquidation initiated", pct |-> 0]), cancelled)

Liquidate ==
  /\ events < MaxEvents
  /\ \E w \in {emergencyCloseAll(W, cancelled) : cancelled \in SUBSET PendingForPositions(db)} :
       SetW(w)
  /\ events' = events + 1
  /\ UNCHANGED <<req, now, script, inflight, tracked>>

\* receiveHeartbeat
Heartbeat ==
  /\ events < MaxEvents
  /\ mem' = [mem EXCEPT !.lastHeartbeat = now]
  /\ events' = events + 1
  /\ UNCHANGED <<db, storage, broker, req, now, script, inflight, tracked>>

\* getStatus: initializeState, syncAccountState, getCurrentEquity, getDailyLossPercent
getStatus(w, b1, b2, posOk, b3, b4) ==
  getDailyLossPercent(
    getCurrentEquity(syncAccountState(initializeState(w, b1), b2, posOk), b3).w, b4).w

Status ==
  /\ events < MaxEvents
  /\ \E w \in {getStatus(W, b1, b2, posOk, b3, b4) : b1, b2, posOk, b3, b4 \in BOOLEAN} : SetW(w)
  /\ events' = events + 1
  /\ UNCHANGED <<req, now, script, inflight, tracked>>

\* enforceEOD with CONSTITUTION.forceEodCloseEt = closeEt, an 'HH:MM' time
enforceEOD(w, closeEt) ==
  IF getCurrentTimeET >= closeEt
    THEN lockSystem(w, [kind |-> "EOD close enforced", pct |-> 0])
    ELSE w

\* alarm: enforceEOD, then setAlarm for the next minute. With forceEodCloseEt
\* null, `CONSTITUTION.forceEodCloseEt.split(':')` throws a TypeError on the
\* second line of enforceEOD and the alarm ends there
alarm(w, closeEt) ==
  IF closeEt = NoClose
    THEN [w |-> w, error |-> TRUE, rearmed |-> FALSE]
    ELSE [w |-> enforceEOD(w, closeEt), error |-> FALSE, rearmed |-> TRUE]

\* the alarm of a Gate deployed with forceEodCloseEt = closeEt
AlarmAt(closeEt) ==
  /\ events < MaxEvents
  /\ SetW(alarm(W, closeEt).w)
  /\ events' = events + 1
  /\ UNCHANGED <<req, now, script, inflight, tracked>>

\* alarm (scheduled by the Worker's cron trigger)
Alarm == AlarmAt(forceEodCloseEt)

\* generateEndOfDayReport, lines 994-1018; b3: the balances fetch of line 1000 succeeds
generateEndOfDayReport(w, b1, b2, posOk, b3) ==
  LET w1 == syncAccountState(initializeState(w, b1), b2, posOk)
      currentEquity == w1.broker.equity
      stored == w1.storage.startOfDayEquity
      fresh == Unset(stored) \/ w1.storage.startOfDayTimestamp = NoEquity
      startOfDay == IF fresh THEN currentEquity ELSE stored
  IN IF ~b3 THEN w1
     ELSE [w1 EXCEPT !.storage.startOfDayEquity = startOfDay,
                     !.storage.startOfDayTimestamp = IF fresh THEN now ELSE @,
                     !.mem.startOfDayEquity = startOfDay]

\* lines 1000-1018: the day P&L (dayPnLDollars) of a report whose balances
\* fetch succeeds
dayPnLDollars(w, b1, b2, posOk) ==
  LET w1 == syncAccountState(initializeState(w, b1), b2, posOk)
      currentEquity == w1.broker.equity
      stored == w1.storage.startOfDayEquity
      fresh == Unset(stored) \/ w1.storage.startOfDayTimestamp = NoEquity
  IN currentEquity - (IF fresh THEN currentEquity ELSE stored)

EodReport ==
  /\ events < MaxEvents
  /\ \E w \in {generateEndOfDayReport(W, b1, b2, posOk, b3) : b1, b2, posOk, b3 \in BOOLEAN} :
       SetW(w)
  /\ events' = events + 1
  /\ UNCHANGED <<req, now, script, inflight, tracked>>

\* ------------------------------------------------------------ environment
\* the instance is evicted or restarted while no request is in flight: the
\* fields of the class take their initial values
Restart ==
  /\ events < MaxEvents
  /\ \A s \in Slots : Free(s)
  /\ mem' = InitMem
  /\ events' = events + 1
  /\ UNCHANGED <<db, storage, broker, req, now, script, inflight, tracked>>

Tick ==
  /\ now < forceEodCloseEt - 1 + MaxTicks
  /\ now' = now + 1
  /\ UNCHANGED <<mem, db, storage, broker, req, events, script, inflight, tracked>>

BrokerEquityChange(e) ==
  /\ events < MaxEvents
  /\ e # broker.equity
  /\ broker' = [broker EXCEPT !.equity = e]
  /\ events' = events + 1
  /\ UNCHANGED <<mem, db, storage, req, now, script, inflight, tracked>>

\* a short option (stored under its option symbol) and a lot of the underlying
PosOne ==
  <<[symbol |-> <<"SPY", 1>>, quantity |-> 0 - 1, cost_basis |-> 55, date_acquired |-> 1],
    [symbol |-> <<"SPY", 0>>, quantity |-> 1, cost_basis |-> 55, date_acquired |-> 1]>>
BrokerPositionSets == {<<>>, PosOne}

BrokerPositionsChange(ps) ==
  /\ events < MaxEvents
  /\ ps # broker.positions
  /\ broker' = [broker EXCEPT !.positions = ps]
  /\ events' = events + 1
  /\ UNCHANGED <<mem, db, storage, req, now, script, inflight, tracked>>

Next ==
  \/ \E p \in Script : ProposalReceive(p)
  \/ \E s \in Slots : ProposalSync(s)
  \/ \E s \in Slots : ProposalEvaluate(s)
  \/ \E s \in Slots : ProposalRecord(s)
  \/ \E s \in Slots : ProposalExecute(s)
  \/ \E s \in Slots : ProposalPost(s)
  \/ \E reason \in LockReasons : Lock(reason)
  \/ Unlock
  \/ \E dates \in DateSets : Calendar(dates)
  \/ Liquidate
  \/ Heartbeat
  \/ Status
  \/ Alarm
  \/ EodReport
  \/ Restart
  \/ Tick
  \/ \E e \in BrokerEquities : BrokerEquityChange(e)
  \/ \E ps \in BrokerPositionSets : BrokerPositionsChange(ps)

Spec == Init /\ [][Next]_vars


\* ----------------------------------------------------------------------
\* SpecEval: one proposal, drawn from every combination of rule violations,
\* is processed by a Gate in every combination of lock, calendar, equity,
\* positions and metadata; only the proposal's own steps are taken.
Legs4 == Legs2 \o <<Leg(<<"SPY", 3>>, "SELL", 1, 30), Leg(<<"SPY", 4>>, "BUY", 1, 30)>>
FarLegs(legs) == [i \in 1..Len(legs) |-> [legs[i] EXCEPT !.expiration = maxDte + 1]]

EvalProposals ==
  {LET body == [id |-> 3, signature |-> NoSig, age |-> age, symbol |-> sym,
                strategy |-> strat, side |-> side, quantity |-> 1, price |-> price,
                legs |-> legs,
                context |-> [vix |-> vix, flow_state |-> "RISK_ON", trend_state |-> "bullish"]]
   IN CASE sig = "none" -> body
        [] sig = "bad" -> [body EXCEPT !.signature = BadSig]
        [] sig = "good" -> Sign(API_SECRET, body) :
     sig \in {"none", "bad", "good"}, age \in {staleProposalMs, staleProposalMs + 1},
     sym \in {"SPY", "XLK"}, strat \in {"CREDIT_SPREAD", "CALENDAR_SPREAD"},
     side \in {"OPEN", "CLOSE"}, price \in {NoPrice, 0, 4, 550},
     legs \in {Legs2, Legs4, FarLegs(Legs2), FarLegs(Legs4)}, vix \in {2800, 2801}}

\* broker positions: maxOpenPositions distinct option symbols; and
\* maxConcentrationPerSymbol lots of SPY itself
PosCap == [i \in 1..maxOpenPositions |->
             [symbol |-> <<"QQQ", i>>, quantity |-> 1, cost_basis |-> 55, date_acquired |-> 1]]
PosConc == [i \in 1..maxConcentrationPerSymbol |->
              [symbol |-> <<"SPY", 0>>, quantity |-> 1, cost_basis |-> 55, date_acquired |-> i]]

\* the ledger, metadata and broker orders after n approved and executed OPENs
\* (proposal ids and order ids 1..n)
OpenedRows(n) ==
  [i \in 1..n |-> [symbol |-> "SPY", strategy |-> "CREDIT_SPREAD", side |-> "OPEN",
                   status |-> "APPROVED", rejection_reason |-> NoReason]]
OpenedOrders(n) ==
  [i \in 1..n |-> [id |-> i, proposal_id |-> i, symbol |-> "SPY", status |-> "pending",
                   quantity |-> 1]]
OpenedMetadata(n) ==
  [i \in 1..n |-> [symbol |-> "SPY", bias |-> "bullish", strategy |-> "CREDIT_SPREAD"]]
OpenedBroker(n) ==
  [i \in 1..n |-> [id |-> i, proposal |-> i, status |-> "pending",
                   payload |-> orderBody(BuildOrder(GoodOpen(i)))]]

InitEval ==
  \E locked \in BOOLEAN, dates \in {{}, {"D0"}}, equity \in {1000, 979},
     ps \in {<<>>, PosCap, PosConc, PosCap \o PosConc}, n \in {0, maxCorrelatedPositions},
     p \in EvalProposals :
    /\ mem = [InitMem EXCEPT !.systemLocked = locked,
                !.lockReason = IF locked THEN [kind |-> "Manual lock", pct |-> 0]
                               ELSE Undefined,
                !.startOfDayEquity = 1000, !.restrictedDates = dates]
    /\ db = [system_status |-> IF locked THEN "LOCKED" ELSE "NORMAL",
             proposals |-> OpenedRows(n), orders |-> OpenedOrders(n),
             positions |-> PositionRows(ps)]
    /\ storage = [restrictedDates |-> dates, positionMetadata |-> OpenedMetadata(n),
                  startOfDayEquity |-> NoEquity, startOfDayTimestamp |-> NoEquity]
    /\ broker = [equity |-> equity, positions |-> ps, orders |-> OpenedBroker(n)]
    /\ req = [s \in Slots |-> Idle]
    /\ now = forceEodCloseEt - 1
    /\ events = MaxEvents - 1
    /\ script = [brain |-> "one", p |-> p]
    /\ inflight = 1
    /\ tracked = NoTracked

NextEval ==
  \/ \E p \in Script : ProposalReceive(p)
  \/ \E s \in Slots : ProposalSync(s)
  \/ \E s \in Slots : ProposalEvaluate(s)
  \/ \E s \in Slots : ProposalRecord(s)
  \/ \E s \in Slots : ProposalExecute(s)
  \/ \E s \in Slots : ProposalPost(s)

SpecEval == InitEval /\ [][NextEval]_vars

\* ----------------------------------------------------------------------
\* SpecSig: one request whose body is a signed proposal as the Brain sent it,
\* or the same signature on a body with one field changed, or a proposal
\* signed with another secret; the Gate is NORMAL or LOCKED.
SignedOriginals == {GoodOpen(3), GoodClose(3)}

\* the bodies that differ from p in the value of one field
Tampered(p) ==
  {[p EXCEPT !.id = 4], [p EXCEPT !.age = 1], [p EXCEPT !.symbol = "QQQ"],
   [p EXCEPT !.strategy = "IRON_CONDOR"],
   [p EXCEPT !.side = IF @ = "OPEN" THEN "CLOSE" ELSE "OPEN"],
   [p EXCEPT !.quantity = 2], [p EXCEPT !.price = 560],
   [p EXCEPT !.legs[1].symbol = <<"SPY", 3>>], [p EXCEPT !.legs[1].side = "BUY"],
   [p EXCEPT !.legs[2].quantity = 2], [p EXCEPT !.legs[1].expiration = 31],
   [p EXCEPT !.legs = <<@[2], @[1]>>],
   [p EXCEPT !.context.vix = 1700], [p EXCEPT !.context.flow_state = "RISK_OFF"],
   [p EXCEPT !.context.trend_state = "bearish"]}

SigProposals ==
  SignedOriginals
    \cup UNION {Tampered(o) : o \in SignedOriginals}
    \cup {Sign(OtherSecret, [o EXCEPT !.signature = NoSig]) : o \in SignedOriginals}

InitSig ==
  \E locked \in BOOLEAN, p \in SigProposals :
    /\ mem = [InitMem EXCEPT !.systemLocked = locked,
                !.lockReason = IF locked THEN [kind |-> "Manual lock", pct |-> 0]
                               ELSE Undefined]
    /\ db = [system_status |-> IF locked THEN "LOCKED" ELSE "NORMAL",
             proposals |-> <<>>, orders |-> <<>>, positions |-> {}]
    /\ storage = [restrictedDates |-> {}, positionMetadata |-> <<>>,
                  startOfDayEquity |-> NoEquity, startOfDayTimestamp |-> NoEquity]
    /\ broker = [equity |-> 1000, positions |-> <<>>, orders |-> <<>>]
    /\ req = [s \in Slots |-> Idle]
    /\ now = forceEodCloseEt - 1
    /\ events = MaxEvents - 1
    /\ script = [brain |-> "one", p |-> p]
    /\ inflight = 1
    /\ tracked = NoTracked

SpecSig == InitSig /\ [][NextEval]_vars

\* ----------------------------------------------------------------------
\* SpecRisk: one validly signed, fresh proposal per behaviour, over the
\* strategies, leg shapes, biases and flow states, in a Gate whose Position
\* Metadata and positions snapshot stand below, at and above the limits.
RatioLegs == <<Leg(<<"SPY", 1>>, "SELL", 2, 30), Leg(<<"SPY", 2>>, "BUY", 1, 30)>>
LegShapes == {<<Legs2[1]>>, Legs2, RatioLegs, Legs4}

RiskProposals ==
  {Sign(API_SECRET,
        [Unsigned(9) EXCEPT !.symbol = sym, !.side = side, !.strategy = strat, !.legs = legs,
                            !.context.trend_state = trend, !.context.flow_state = flow]) :
     sym \in {"SPY", "QQQ"}, side \in {"OPEN", "CLOSE"}, strat \in allowedStrategies,
     legs \in LegShapes, trend \in {"bullish", "bearish", "neutral", Absent},
     flow \in {"RISK_ON", "UNKNOWN", Absent}}

\* Position Metadata after a run of approved and executed OPENs, oldest first
Entry(symbol, bias) == [symbol |-> symbol, bias |-> bias, strategy |-> "CREDIT_SPREAD"]
MetaLists ==
  {<<>>,
   <<Entry("SPY", "bullish")>>,
   <<Entry("SPY", "bullish"), Entry("IWM", "bullish")>>,
   <<Entry("QQQ", "bullish"), Entry("QQQ", "bullish")>>,
   <<Entry("SPY", "bullish"), Entry("QQQ", "bearish"), Entry("SPY", "bearish")>>,
   [i \in 1..maxTotalPositions |-> Entry("SPY", "neutral")]}

\* the ledger rows and broker orders that go with a metadata list (proposal
\* ids and order ids 1..Len(md))
LedgerRows(md) ==
  [i \in 1..Len(md) |-> [symbol |-> md[i].symbol, strategy |-> md[i].strategy, side |-> "OPEN",
                         status |-> "APPROVED", rejection_reason |-> NoReason]]
LedgerOrders(md) ==
  [i \in 1..Len(md) |-> [id |-> i, proposal_id |-> i, symbol |-> md[i].symbol,
                         status |-> "pending", quantity |-> 1]]
BrokerOrders(md) ==
  [i \in 1..Len(md) |->
     [id |-> i, proposal |-> i, status |-> "pending",
      payload |-> orderBody(BuildOrder([GoodOpen(i) EXCEPT !.symbol = md[i].symbol]))]]

\* broker positions: n distinct option symbols on QQQ; n lots of SPY itself;
\* n lots of SPY options, two lots to an option symbol
OptionPositions(n) ==
  [i \in 1..n |-> [symbol |-> <<"QQQ", i>>, quantity |-> 1, cost_basis |-> 55, date_acquired |-> 1]]
UnderlyingLots(n) ==
  [i \in 1..n |-> [symbol |-> <<"SPY", 0>>, quantity |-> 1, cost_basis |-> 55, date_acquired |-> i]]
OptionLots(n) ==
  [i \in 1..n |-> [symbol |-> <<"SPY", (i + 1) \div 2>>, quantity |-> 0 - 1, cost_basis |-> 55,
                   date_acquired |-> i % 2]]
PosLists ==
  {<<>>, OptionPositions(maxOpenPositions - 1), OptionPositions(maxOpenPositions),
   UnderlyingLots(maxConcentrationPerSymbol - 1), UnderlyingLots(maxConcentrationPerSymbol),
   OptionLots(maxConcentrationPerSymbol)}

InitRisk ==
  \E md \in MetaLists, ps \in PosLists, p \in RiskProposals :
    /\ mem = [InitMem EXCEPT !.startOfDayEquity = 1000]
    /\ db = [system_status |-> "NORMAL", proposals |-> LedgerRows(md),
             orders |-> LedgerOrders(md), positions |-> PositionRows(ps)]
    /\ storage = [restrictedDates |-> {}, positionMetadata |-> md,
                  startOfDayEquity |-> NoEquity, startOfDayTimestamp |-> NoEquity]
    /\ broker = [equity |-> 1000, positions |-> ps, orders |-> BrokerOrders(md)]
    /\ req = [s \in Slots |-> Idle]
    /\ now = forceEodCloseEt - 1
    /\ events = MaxEvents - 1
    /\ script = [brain |-> "one", p |-> p]
    /\ inflight = 1
    /\ tracked = NoTracked

SpecRisk == InitRisk /\ [][NextEval]_vars

\* ----------------------------------------------------------------------
\* SpecBound: one validly signed proposal per behaviour, at and next to the
\* limits of the staleness, DTE and VIX checks (age is Date.now() minus the
\* proposal's timestamp, negative for a timestamp ahead of the Gate's clock),
\* evaluated at several times of the ET day (midnight, the open, before the close, 18:59, 19:00, 23:59).
TimesOfDay == {0, 570, 944, 1139, 1140, 1439}
Expirations == {minDte - 1, minDte, 30, maxDte, maxDte + 1}
WithExpiration(legs, e) == [i \in 1..Len(legs) |-> [legs[i] EXCEPT !.expiration = e]]

BoundProposals ==
  {Sign(API_SECRET,
        [Unsigned(7) EXCEPT !.side = side, !.age = age, !.legs = WithExpiration(Legs2, e),
                            !.context.vix = vix]) :
     side \in {"OPEN", "CLOSE"},
     age \in {staleProposalMs, staleProposalMs + 1, 0 - staleProposalMs - 1},
     e \in Expirations, vix \in {2800, 2801, NoVix}}

InitBound ==
  \E t \in TimesOfDay, p \in BoundProposals :
    /\ mem = [InitMem EXCEPT !.startOfDayEquity = 1000]
    /\ db = [system_status |-> "NORMAL", proposals |-> <<>>, orders |-> <<>>, positions |-> {}]
    /\ storage = [restrictedDates |-> {}, positionMetadata |-> <<>>,
                  startOfDayEquity |-> NoEquity, startOfDayTimestamp |-> NoEquity]
    /\ broker = [equity |-> 1000, positions |-> <<>>, orders |-> <<>>]
    /\ req = [s \in Slots |-> Idle]
    /\ now = t
    /\ events = MaxEvents - 1
    /\ script = [brain |-> "one", p |-> p]
    /\ inflight = 1
    /\ tracked = NoTracked

SpecBound == InitBound /\ [][NextEval]_vars

\* ----------------------------------------------------------------------
\* SpecRoute: the Gate as it is reached over HTTP. Every request of the
\* documented surface enters the Worker's fetch (src/src/index.ts), which
\* forwards it to the Durable Object's fetch or answers it itself.
HttpRequests ==
  {[path |-> "/v1/proposal", method |-> "POST", dates |-> {}],
   [path |-> "/v1/heartbeat", method |-> "POST", dates |-> {}],
   [path |-> "/v1/status", method |-> "GET", dates |-> {}],
   [path |-> "/v1/admin/lock", method |-> "POST", dates |-> {}],
   [path |-> "/v1/admin/unlock", method |-> "POST", dates |-> {}],
   [path |-> "/v1/admin/liquidate", method |-> "POST", dates |-> {}],
   [path |-> "/", method |-> "GET", dates |-> {}]}
    \cup {[path |-> "/v1/admin/calendar", method |-> "POST", dates |-> d] : d \in DateSets}

\* the Worker's router: the Durable Object path the request is forwarded to,
\* "UI" for the dashboard, "Not Found" for the final else
workerRoute(path, method) ==
  CASE path \in {"/", "/dashboard"} -> "UI"
    [] path = "/v1/proposal" /\ method = "POST" -> "/process"
    [] path = "/v1/admin/lock" /\ method = "POST" -> "/lock"
    [] path = "/v1/admin/unlock" /\ method = "POST" -> "/unlock"
    [] path = "/v1/admin/liquidate" /\ method = "POST" -> "/liquidate"
    [] path = "/v1/status" /\ method = "GET" -> "/status"
    [] path = "/v1/heartbeat" /\ method = "POST" -> "/heartbeat"
    [] OTHER -> "Not Found"

\* the request is answered without a call of the Durable Object
AnsweredByWorker ==
  /\ events < MaxEvents
  /\ events' = events + 1
  /\ UNCHANGED <<mem, db, storage, broker, req, now, script, inflight, tracked>>

\* the Worker's fetch followed by the Durable Object's fetch for the path
WorkerFetch(r) ==
  LET target == workerRoute(r.path, r.method) IN
  CASE target = "/process" -> \E p \in Script : ProposalReceive(p)
    [] target = "/lock" -> \E reason \in LockReasons : Lock(reason)
    [] target = "/unlock" -> Unlock
    [] target = "/admin/calendar" -> Calendar(r.dates)
    [] target = "/liquidate" -> Liquidate
    [] target = "/status" -> Status
    [] target = "/heartbeat" -> Heartbeat
    [] OTHER -> AnsweredByWorker

NextRoute ==
  \/ \E r \in HttpRequests : WorkerFetch(r)
  \/ \E s \in Slots : ProposalSync(s)
  \/ \E s \in Slots : ProposalEvaluate(s)
  \/ \E s \in Slots : ProposalRecord(s)
  \/ \E s \in Slots : ProposalExecute(s)
  \/ \E s \in Slots : ProposalPost(s)

SpecRoute == Init /\ [][NextRoute]_vars

\* ----------------------------------------------------------------------
\* SpecNoEod: the Gate deployed with the Constitution of config.ts:180-185,
\* forceEodCloseEt: null, under lock, unlock, liquidate, proposals, the clock
\* and the scheduler's alarm.
NextNoEod ==
  \/ \E p \in Script : ProposalReceive(p)
  \/ \E s \in Slots : ProposalSync(s)
  \/ \E s \in Slots : ProposalEvaluate(s)
  \/ \E s \in Slots : ProposalRecord(s)
  \/ \E s \in Slots : ProposalExecute(s)
  \/ \E s \in Slots : ProposalPost(s)
  \/ \E reason \in LockReasons : Lock(reason)
  \/ Unlock
  \/ Liquidate
  \/ AlarmAt(NoClose)
  \/ Tick

SpecNoEod == Init /\ [][NextNoEod]_vars

\* ----------------------------------------------------------------------
\* SpecSync: the proposals and Gate states of SpecRisk, with a reconciliation
\* whose broker fetches and D1 statements may each fail.
NextSync ==
  \/ \E p \in Script : ProposalReceive(p)
  \/ \E s \in Slots : ProposalSyncD1(s)
  \/ \E s \in Slots : ProposalEvaluate(s)
  \/ \E s \in Slots : ProposalRecord(s)
  \/ \E s \in Slots : ProposalExecute(s)
  \/ \E s \in Slots : ProposalPost(s)

SpecSync == InitRisk /\ [][NextSync]_vars

\* ----------------------------------------------------------------------
\* SpecLots: reconciliations at different times against a broker whose
\* positions do not change: no position, a zero-quantity position, lots of one
\* symbol acquired at different times or at the same time, a position without
\* an acquisition date. The snapshot at the start is the one a reconciliation
\* has just written.
Lot(qty, date) ==
  [symbol |-> <<"SPY", 0>>, quantity |-> qty, cost_basis |-> 55, date_acquired |-> date]
LotLists ==
  {<<>>, PosOne, <<Lot(1, 1), Lot(0, 2)>>, <<Lot(1, 1), Lot(2, 2)>>,
   <<Lot(1, 1), Lot(2, 1)>>, <<Lot(1, NoDate)>>}

InitLots ==
  \E ps \in LotLists :
    /\ now = forceEodCloseEt - 1
    /\ broker = [equity |-> 1000, positions |-> ps, orders |-> <<>>]
    /\ mem = [InitMem EXCEPT !.startOfDayEquity = 1000,
                             !.equityCache = [value |-> 1000, timestamp |-> now]]
    /\ db = [system_status |-> "NORMAL", proposals |-> <<>>, orders |-> <<>>,
             positions |-> IF BatchUnique(getPositions([broker |-> broker]))
                             THEN PositionRows(getPositions([broker |-> broker]))
                             ELSE {}]
    /\ storage = [restrictedDates |-> {}, positionMetadata |-> <<>>,
                  startOfDayEquity |-> NoEquity, startOfDayTimestamp |-> NoEquity]
    /\ req = [s \in Slots |-> Idle]
    /\ events = 0
    /\ script = [brain |-> "core", p |-> NoProposal]
    /\ inflight = 1
    /\ tracked = NoTracked

NextLots ==
  \/ \E p \in Script : ProposalReceive(p)
  \/ \E s \in Slots : ProposalSync(s)
  \/ \E s \in Slots : ProposalEvaluate(s)
  \/ \E s \in Slots : ProposalRecord(s)
  \/ \E s \in Slots : ProposalExecute(s)
  \/ \E s \in Slots : ProposalPost(s)
  \/ Tick

SpecLots == InitLots /\ [][NextLots]_vars

\* ----------------------------------------------------------------------
\* SpecLockstep: after n executed OPENs of SPY credit spreads, the Brain sends
\* further OPENs and CLOSEs of the same (symbol, strategy), replays included,
\* one at a time or two overlapping.
InitLockstep ==
  \E n \in 0..maxCorrelatedPositions, k \in 1..Cardinality(Slots) :
    /\ mem = [InitMem EXCEPT !.startOfDayEquity = 1000]
    /\ db = [system_status |-> "NORMAL", proposals |-> OpenedRows(n),
             orders |-> OpenedOrders(n), positions |-> {}]
    /\ storage = [restrictedDates |-> {}, positionMetadata |-> OpenedMetadata(n),
                  startOfDayEquity |-> NoEquity, startOfDayTimestamp |-> NoEquity]
    /\ broker = [equity |-> 1000, positions |-> <<>>, orders |-> OpenedBroker(n)]
    /\ req = [s \in Slots |-> Idle]
    /\ now = forceEodCloseEt - 1
    /\ events = 0
    /\ script = [brain |-> "lockstep", p |-> NoProposal]
    /\ inflight = k
    /\ tracked = NoTracked

SpecLockstep == InitLockstep /\ [][NextEval]_vars

\* ----------------------------------------------------------------------
\* SpecPost: the runs of SpecLockstep, with writes after the broker accepted
\* the order that may fail. dbOk: D1 runs the INSERT INTO orders and the CLOSE
\* lookup; kvOk: the key-value storage takes the metadata write. A failure is
\* thrown inside the execution block and caught at lines 767-779.
ProposalPostD1(s) ==
  /\ req[s].pc = "post"
  /\ \E dbOk, kvOk \in BOOLEAN :
       LET p == req[s].p
           oid == req[s].order_id
           found == orderLookup(db', p.symbol, p.strategy)
       IN /\ db' = IF dbOk
                     THEN [db EXCEPT !.orders = Append(@, [id |-> oid, proposal_id |-> p.id,
                                                          symbol |-> p.symbol, status |-> "pending",
                                                          quantity |-> p.quantity])]
                     ELSE db
          /\ storage' =
               IF ~(dbOk /\ kvOk) THEN storage
               ELSE IF p.side = "OPEN"
                 THEN savePositionMetadata(storage, oid,
                        [symbol |-> p.symbol,
                         bias |-> IF p.context.trend_state \in {Absent, ""}
                                    THEN "neutral" ELSE p.context.trend_state,
                         strategy |-> p.strategy])
                 ELSE IF found # 0 THEN removePositionMetadata(storage, found)
                 ELSE storage
          /\ req' = IF dbOk /\ kvOk
                      THEN [req EXCEPT ![s].pc = "done",
                                       ![s].resp = Resp(200, "APPROVED", NoReason, oid)]
                      ELSE [req EXCEPT ![s] = executionFailed(@)]
  /\ UNCHANGED <<mem, broker, now, events, script, inflight, tracked>>

NextPost ==
  \/ \E p \in Script : ProposalReceive(p)
  \/ \E s \in Slots : ProposalSync(s)
  \/ \E s \in Slots : ProposalEvaluate(s)
  \/ \E s \in Slots : ProposalRecord(s)
  \/ \E s \in Slots : ProposalExecute(s)
  \/ \E s \in Slots : ProposalPostD1(s)

SpecPost == InitLockstep /\ [][NextPost]_vars

\* ----------------------------------------------------------------------
\* SpecLatch: the Gate right after the daily-loss check has latched the lock:
\* the day opened at 1000, the broker equity is at or below the limit, the
\* equity cache holds the value the check saw and the rejected proposal is in
\* the ledger. Every operation of the Gate may follow.
DayOpenEquity == CHOOSE e \in BrokerEquities : \A f \in BrokerEquities : f <= e
LatchedRow(equity) ==
  [symbol |-> "SPY", strategy |-> "CREDIT_SPREAD", side |-> "OPEN", status |-> "REJECTED",
   rejection_reason |-> [rule |-> "Daily loss limit exceeded",
                         arg |-> [kind |-> "pct",
                                  pct |-> RoundBp(DayOpenEquity - equity, DayOpenEquity)]]]

InitLatch ==
  \E equity \in {e \in BrokerEquities :
                   LossBreach([num |-> DayOpenEquity - e, den |-> DayOpenEquity])} :
    /\ now = forceEodCloseEt - 1
    /\ mem = [InitMem EXCEPT !.systemLocked = TRUE,
                !.lockReason = [kind |-> "Daily loss limit exceeded",
                                pct |-> RoundBp(DayOpenEquity - equity, DayOpenEquity)],
                !.startOfDayEquity = DayOpenEquity,
                !.equityCache = [value |-> equity, timestamp |-> now]]
    /\ db = [system_status |-> "LOCKED", proposals |-> (9 :> LatchedRow(equity)),
             orders |-> <<>>, positions |-> {}]
    /\ storage = [restrictedDates |-> {}, positionMetadata |-> <<>>,
                  startOfDayEquity |-> NoEquity, startOfDayTimestamp |-> NoEquity]
    /\ broker = [equity |-> equity, positions |-> <<>>, orders |-> <<>>]
    /\ req = [s \in Slots |-> Idle]
    /\ events = 0
    /\ script = [brain |-> "core", p |-> NoProposal]
    /\ inflight = 1
    /\ tracked = NoTracked

SpecLatch == InitLatch /\ [][Next]_vars

\* ----------------------------------------------------------------------
\* SpecCalendar: the Gate under the CONSTITUTION that lists CALENDAR_SPREAD,
\* with one signed proposal of each listed strategy and each leg shape (a
\* calendar spread sells the near expiration and buys the far one).
CalendarLegs == <<Leg(<<"SPY", 1>>, "SELL", 1, 30), Leg(<<"SPY", 5>>, "BUY", 1, maxDte)>>

CalendarProposals ==
  {Sign(API_SECRET, [Unsigned(9) EXCEPT !.side = side, !.strategy = strat, !.legs = legs]) :
     side \in {"OPEN", "CLOSE"}, strat \in allowedStrategiesWithCalendar,
     legs \in LegShapes \cup {CalendarLegs}}

InitCalendar ==
  \E p \in CalendarProposals :
    /\ mem = [InitMem EXCEPT !.startOfDayEquity = 1000]
    /\ db = [system_status |-> "NORMAL", proposals |-> <<>>, orders |-> <<>>, positions |-> {}]
    /\ storage = [restrictedDates |-> {}, positionMetadata |-> <<>>,
                  startOfDayEquity |-> NoEquity, startOfDayTimestamp |-> NoEquity]
    /\ broker = [equity |-> 1000, positions |-> <<>>, orders |-> <<>>]
    /\ req = [s \in Slots |-> Idle]
    /\ now = forceEodCloseEt - 1
    /\ events = MaxEvents - 1
    /\ script = [brain |-> "one", p |-> p]
    /\ inflight = 1
    /\ tracked = NoTracked

ProposalEvaluateWithCalendar(s) ==
  /\ req[s].pc = "eval"
  /\ \E ev \in {evaluateProposalUnder(allowedStrategiesWithCalendar, W, req[s].p, balOk) :
                   balOk \in BOOLEAN} :
       /\ SetW(ev.w)
       /\ req' = [req EXCEPT ![s].pc = "record", ![s].status = ev.status,
                             ![s].rejectionReason = ev.rejectionReason]
  /\ UNCHANGED <<now, events, script, inflight, tracked>>

NextCalendar ==
  \/ \E p \in Script : ProposalReceive(p)
  \/ \E s \in Slots : ProposalSync(s)
  \/ \E s \in Slots : ProposalEvaluateWithCalendar(s)
  \/ \E s \in Slots : ProposalRecord(s)
  \/ \E s \in Slots : ProposalExecute(s)
  \/ \E s \in Slots : ProposalPost(s)

SpecCalendar == InitCalendar /\ [][NextCalendar]_vars

\* ----------------------------------------------------------------------
\* SpecKeys: one request whose JSON body denotes a proposal the Brain signed,
\* with its object keys in sorted order or reordered, at the top level and
\* inside the legs and the context; the Gate is NORMAL or LOCKED.
KeyOrders == [top : {"sorted", "reordered"}, nested : {"sorted", "reordered"}]

KeyOriginals ==
  {Sign(API_SECRET, [Unsigned(5) EXCEPT !.side = side, !.symbol = sym, !.context.vix = vix]) :
     side \in {"OPEN", "CLOSE"}, sym \in {"SPY", "QQQ"}, vix \in {1800, 2801}}

\* the same proposal and signature in a body with the given key order
Reordered(o, order) == [k \in DOMAIN o \cup {"keyOrder"} |-> IF k = "keyOrder" THEN order ELSE o[k]]

KeyBodies == KeyOriginals \cup {Reordered(o, order) : o \in KeyOriginals, order \in KeyOrders}

InitKeys ==
  \E locked \in BOOLEAN, p \in KeyBodies :
    /\ mem = [InitMem EXCEPT !.systemLocked = locked,
                !.lockReason = IF locked THEN [kind |-> "Manual lock", pct |-> 0]
                               ELSE Undefined]
    /\ db = [system_status |-> IF locked THEN "LOCKED" ELSE "NORMAL",
             proposals |-> <<>>, orders |-> <<>>, positions |-> {}]
    /\ storage = [restrictedDates |-> {}, positionMetadata |-> <<>>,
                  startOfDayEquity |-> NoEquity, startOfDayTimestamp |-> NoEquity]
    /\ broker = [equity |-> 1000, positions |-> <<>>, orders |-> <<>>]
    /\ req = [s \in Slots |-> Idle]
    /\ now = forceEodCloseEt - 1
    /\ events = MaxEvents - 1
    /\ script = [brain |-> "one", p |-> p]
    /\ inflight = 1
    /\ tracked = NoTracked

SpecKeys == InitKeys /\ [][NextEval]_vars

\* ======================================================================
\* Brain: position manager (one pass of the monitoring loop over one position)
\* ======================================================================
\* Amounts are whole dollars for the full-quantity trade; pnl_pct and
\* highest_pnl_seen are tenths of a percent (1250 = 125.0), rounded down.
CreditStrategies == {"CREDIT_SPREAD", "IRON_CONDOR", "IRON_BUTTERFLY"}

\* Net amount paid (positive) or received (negative) to close every leg:
\* short legs are bought back, long legs are sold.
RECURSIVE costToClose(_, _)
costToClose(legs, price) ==
  IF legs = <<>> THEN 0
  ELSE LET n == Len(legs)
           amount == price[n] * legs[n].quantity
       IN costToClose(SubSeq(legs, 1, n - 1), price) +
          (IF legs[n].side = "SELL" THEN amount ELSE 0 - amount)

\* Strategy-aware profit: a credit entry pays at most the cost to close; a
\* debit entry closed for a credit adds the credit to the entry price.
pnlDollars(strategy, entry_price, cost_to_close) ==
  IF strategy \in CreditStrategies
    THEN entry_price - (IF cost_to_close > 0 THEN cost_to_close ELSE 0)
    ELSE IF cost_to_close >= 0
      THEN entry_price - cost_to_close
      ELSE entry_price + (0 - cost_to_close)

pnlPct(pnl, entry_price) == (pnl * 1000) \div entry_price

\* The pnl-driven exits; indicator stands for the RSI / ADX / trend-break /
\* 15:55 exits, which do not depend on the P&L.
exitSignal(strategy, pnl_pct, highest, indicator) ==
  \/ indicator
  \/ /\ strategy = "CREDIT_SPREAD"
     /\ \/ highest >= 300 /\ highest - pnl_pct >= 100
        \/ pnl_pct >= 800
        \/ pnl_pct <= 0 - 1000
  \/ /\ strategy \in {"IRON_CONDOR", "IRON_BUTTERFLY"}
     /\ (pnl_pct >= 500 \/ pnl_pct <= 0 - 1000)

\* The earlier loop body, which passed over a position whose cost to close
\* was not positive and computed every profit as entry minus cost.
managePosition_skipNonPositive(t, price, indicator) ==
  LET pos == t.pos
      ctc == costToClose(pos.legs, price)
      pnl == pos.entry_price - ctc
      pct == pnlPct(pnl, pos.entry_price)
      high == IF pct > pos.highest_pnl_seen THEN pct ELSE pos.highest_pnl_seen
  IN IF ctc <= 0
       THEN [t EXCEPT !.out = [evaluated |-> FALSE, cost_to_close |-> ctc,
                               pnl |-> 0, pnl_pct |-> 0]]
       ELSE [pos |-> [pos EXCEPT !.highest_pnl_seen = high,
                                 !.status = IF exitSignal(pos.strategy, pct, high, indicator)
                                              THEN "CLOSING" ELSE @],
             out |-> [evaluated |-> TRUE, cost_to_close |-> ctc,
                      pnl |-> pnl, pnl_pct |-> pct]]

managePosition(t, price, indicator) ==
  LET pos == t.pos
      ctc == costToClose(pos.legs, price)
      pnl == pnlDollars(pos.strategy, pos.entry_price, ctc)
      pct == pnlPct(pnl, pos.entry_price)
      high == IF pct > pos.highest_pnl_seen THEN pct ELSE pos.highest_pnl_seen
  IN [pos |-> [pos EXCEPT !.highest_pnl_seen = high,
                          !.status = IF exitSignal(pos.strategy, pct, high, indicator)
                                       THEN "CLOSING" ELSE @],
      out |-> [evaluated |-> TRUE, cost_to_close |-> ctc,
               pnl |-> pnl, pnl_pct |-> pct]]

LegPrices == {10, 50, 90}

ManagePosition ==
  /\ tracked.pos.status = "OPEN"
  /\ \E price \in [1 .. Len(tracked.pos.legs) -> LegPrices], indicator \in BOOLEAN :
       tracked' = managePosition(tracked, price, indicator)
  /\ UNCHANGED <<mem, db, storage, broker, req, now, events, script, inflight>>

\* A failed close puts the position back under monitoring.
CloseFailed ==
  /\ tracked.pos.status = "CLOSING"
  /\ tracked' = [tracked EXCEPT !.pos.status = "OPEN"]
  /\ UNCHANGED <<mem, db, storage, broker, req, now, events, script, inflight>>

TrackedLegs(strategy) ==
  CASE strategy = "RATIO_SPREAD" ->
         <<[side |-> "BUY", quantity |-> 1], [side |-> "SELL", quantity |-> 2]>>
    [] strategy = "CALENDAR_SPREAD" ->
         <<[side |-> "SELL", quantity |-> 1], [side |-> "BUY", quantity |-> 1]>>
    [] strategy = "CREDIT_SPREAD" ->
         <<[side |-> "SELL", quantity |-> 2], [side |-> "BUY", quantity |-> 2]>>
    [] OTHER ->
         <<[side |-> "SELL", quantity |-> 1], [side |-> "BUY", quantity |-> 1],
           [side |-> "SELL", quantity |-> 1], [side |-> "BUY", quantity |-> 1]>>

TrackedPositions ==
  {[strategy |-> st, entry_price |-> e, legs |-> TrackedLegs(st),
    highest_pnl_seen |-> 0, status |-> "OPEN"] :
     st \in CreditStrategies \cup {"RATIO_SPREAD", "CALENDAR_SPREAD"},
     e \in {60, 120, 250}}

InitPnL ==
  /\ mem = InitMem
  /\ db = [system_status |-> "NORMAL", proposals |-> <<>>, orders |-> <<>>, positions |-> {}]
  /\ storage = [restrictedDates |-> {}, positionMetadata |-> <<>>,
                startOfDayEquity |-> NoEquity, startOfDayTimestamp |-> NoEquity]
  /\ broker = [equity |-> 1000, positions |-> <<>>, orders |-> <<>>]
  /\ req = [s \in Slots |-> Idle]
  /\ now = forceEodCloseEt - 1
  /\ events = 0
  /\ script = [brain |-> "core", p |-> NoProposal]
  /\ inflight = 1
  /\ \E pos \in TrackedPositions : tracked = [pos |-> pos, out |-> NoTracked.out]

NextPnL == ManagePosition \/ CloseFailed

SpecPnL == InitPnL /\ [][NextPnL]_vars

\* ======================================================================
\* Properties
\* ======================================================================
ApprovedRows(d) == {id \in DOMAIN d.proposals : d.proposals[id].status = "APPROVED"}

\* C1: while the system is LOCKED (from a completed lock until an unlock), no
\* proposals-ledger row with status APPROVED is written, no broker order is
\* placed, and a validly signed proposal that is evaluated is rejected as locked.
C1_LockedRejectsAll ==
  [][(db.system_status = "LOCKED" /\ db'.system_status = "LOCKED") =>
        /\ ApprovedRows(db') = ApprovedRows(db)
        /\ Len(broker'.orders) = Len(broker.orders)
        /\ \A s \in Slots :
             (req[s].pc = "eval" /\ req'[s].pc = "record" /\ verifySignature(req[s].p))
                => req'[s].rejectionReason.rule = "System is locked"]_vars

\* C2: requests run one at a time to completion; in particular the execution
\* step of a proposal never places its broker order when a lock request has
\* returned LOCKED since the proposal passed the lock check.
C2_NoOrderAfterLockReturned ==
  [][\A s \in Slots :
       (req[s].pc = "exec" /\ req'[s].pc = "post") => ~mem.systemLocked]_vars


\* a step of the evaluation / of the ledger insert of the request in slot s
EvalStep(s) == req[s].pc = "eval" /\ req'[s].pc = "record"
RecordStep(s) == req[s].pc = "record" /\ req'[s].pc \in {"done", "exec"}

\* the proposal passes every check that precedes the daily-loss check
ReachesDailyLoss(m, p) ==
  /\ verifySignature(p)
  /\ ~m.systemLocked
  /\ p.age <= staleProposalMs
  /\ p.symbol \in allowedSymbols
  /\ p.price > 0
  /\ p.side = "OPEN" =>
       /\ p.strategy \in allowedStrategies
       /\ StructureError(p) = ""
       /\ DteError(p) = ""
       /\ Today \notin m.restrictedDates

\* the equity the daily-loss check reads and the baseline it compares it with,
\* when the balances fetch (if one is made) has outcome b
SeenEquity(b) == getCurrentEquity(W, b).value
SeenBaseline(b) == getCurrentEquity(W, b).w.mem.startOfDayEquity
SeenBreach(b) ==
  /\ ~Unset(SeenBaseline(b))
  /\ (SeenBaseline(b) - SeenEquity(b)) * 10000 >= maxDailyLossBp * SeenBaseline(b)

C4_OneLedgerRowPerRequest ==
  \A s \in Slots : req[s].pc = "done" => req[s].p.id \in DOMAIN db.proposals

\* C6: every proposal request is answered 200 APPROVED with an order id,
\* 403 REJECTED with a non-empty reason, or 500 APPROVED_BUT_EXECUTION_FAILED.
C6_ResponseShapes ==
  \A s \in Slots : req[s].pc = "done" =>
    \/ req[s].resp.code = 200 /\ req[s].resp.status = "APPROVED" /\ req[s].resp.order_id # 0
    \/ req[s].resp.code = 403 /\ req[s].resp.status = "REJECTED"
         /\ req[s].resp.reason.rule # ""
    \/ req[s].resp.code = 500 /\ req[s].resp.status = "APPROVED_BUT_EXECUTION_FAILED"

\* C7: when the broker submission of an approved proposal fails, the response
\* is 500 APPROVED_BUT_EXECUTION_FAILED with the error, the proposal's ledger
\* row stays APPROVED, no orders row is inserted and Position Metadata is
\* unchanged.
C7_ExecutionFailure ==
  [][\A s \in Slots :
       (req[s].pc = "exec" /\ req'[s].pc = "done")
         => /\ req'[s].resp.code = 500
            /\ req'[s].resp.status = "APPROVED_BUT_EXECUTION_FAILED"
            /\ req'[s].resp.reason.rule # ""
            /\ req[s].p.id \in DOMAIN db'.proposals
            /\ db'.proposals[req[s].p.id].status = "APPROVED"
            /\ db'.orders = db.orders
            /\ \A i \in 1..Len(db'.orders) : db'.orders[i].proposal_id # req[s].p.id
            /\ storage'.positionMetadata = storage.positionMetadata
            /\ broker'.orders = broker.orders]_vars

\* C7 witness: an approved CLOSE whose broker submission failed, with Position
\* Metadata present for it to (not) remove
C7_Witness ==
  \E s \in Slots :
    /\ req[s].pc = "done" /\ req[s].resp.code = 500
    /\ req[s].p.side = "CLOSE"
    /\ db.proposals[req[s].p.id].status = "APPROVED"
    /\ DOMAIN storage.positionMetadata # {}

\* C8: the lock status and its reason survive the loss of the instance's
\* memory: whenever the Gate reports or enforces LOCKED it has the reason the
\* system was locked with.
C8_LockReasonDurable ==
  (mem.systemLocked /\ db.system_status = "LOCKED") => mem.lockReason # Undefined

\* C9: once start-of-day equity is set, no operation and no restart changes it.
C9_StartOfDayEquityFixed ==
  [][~Unset(mem.startOfDayEquity) => mem'.startOfDayEquity = mem.startOfDayEquity]_vars


\* the persisted system status goes from a to b in this step
StatusChange(a, b) == db.system_status = a /\ db'.system_status = b

DailyLossStep ==
  \E s \in Slots :
    ProposalEvaluate(s) /\ req'[s].rejectionReason.rule = "Daily loss limit exceeded"

\* C10 (as stated): the status goes NORMAL -> LOCKED only in a daily-loss
\* rejection, a manual lock or a liquidate, and LOCKED -> NORMAL only in a
\* manual unlock; no other operation changes it.
C10_OnlyThreeLockPaths ==
  [][/\ StatusChange("NORMAL", "LOCKED") =>
          (DailyLossStep \/ (\E r \in LockReasons : Lock(r)) \/ Liquidate)
     /\ StatusChange("LOCKED", "NORMAL") => Unlock]_vars

\* C10 (amended): the status goes NORMAL -> LOCKED only in a daily-loss
\* rejection, a manual lock, a liquidate, or a scheduler alarm at or after
\* forceEodCloseEt; LOCKED -> NORMAL only in a manual unlock.
C10_LockTransitions ==
  [][/\ StatusChange("NORMAL", "LOCKED") =>
          \/ DailyLossStep
          \/ \E r \in LockReasons : Lock(r)
          \/ Liquidate
          \/ Alarm /\ getCurrentTimeET >= forceEodCloseEt
     /\ StatusChange("LOCKED", "NORMAL") => Unlock]_vars

\* C10 witness: the alarm has locked the system at the end-of-day close time
C10_Witness ==
  /\ db.system_status = "LOCKED"
  /\ mem.lockReason.kind = "EOD close enforced"
  /\ now >= forceEodCloseEt


\* the rule a rejection reason belongs to
RuleOf(reason) ==
  CASE reason = "" -> "none"
    [] reason = "Missing signature" -> "signature present"
    [] reason = "Invalid signature" -> "signature valid"
    [] reason = "System is locked" -> "system lock"
    [] reason = "Proposal is stale" -> "staleness"
    [] reason = "Symbol not allowed" -> "allowed symbol"
    [] reason = "Strategy not allowed" -> "allowed strategy"
    [] reason = "Limit Price is required for safety" -> "price"
    [] reason \in {"CREDIT_SPREAD must have exactly 2 legs", "IRON_CONDOR must have exactly 4 legs",
                   "IRON_BUTTERFLY must have exactly 4 legs", "RATIO_SPREAD must have exactly 2 legs",
                   "RATIO_SPREAD must have unequal quantities", "Unknown strategy structure"}
         -> "structure"
    [] reason \in {"Proposal must have at least one leg", "Leg expiration date is required",
                   "DTE out of range"} -> "DTE"
    [] reason = "Trading suspended for Event Risk (Calendar Lock)" -> "calendar lock"
    [] reason = "Daily loss limit exceeded" -> "daily loss"
    [] reason = "Max open positions reached" -> "position cap"
    [] reason = "Correlation Limit Hit" -> "correlation guard"
    [] reason = "Max concentration per symbol reached" -> "concentration"
    [] reason \in {"VIX not available", "VIX too high", "Flow state is UNKNOWN"} -> "context"
    [] OTHER -> "other"

\* the rules in the order of the evaluation, each with the condition under
\* which proposal p violates it in the current state (b: outcome of a balances
\* fetch the daily-loss check may make)
RuleOrder ==
  <<"signature present", "signature valid", "system lock", "staleness", "allowed symbol",
    "allowed strategy", "price", "structure", "DTE", "calendar lock", "daily loss",
    "position cap", "correlation guard", "concentration", "context">>

LegShapeOk(p) ==
  CASE p.strategy = "CREDIT_SPREAD" -> Len(p.legs) = 2
    [] p.strategy \in {"IRON_CONDOR", "IRON_BUTTERFLY"} -> Len(p.legs) = 4
    [] p.strategy = "RATIO_SPREAD" ->
         Len(p.legs) = 2 /\ p.legs[1].quantity # p.legs[2].quantity
    [] OTHER -> FALSE

BiasCount(p) ==
  Cardinality({k \in DOMAIN storage.positionMetadata :
     /\ storage.positionMetadata[k].bias = p.context.trend_state
     /\ \E i \in 1..Len(correlationGroups) :
          /\ p.symbol \in correlationGroups[i].symbols
          /\ \A j \in 1..(i - 1) : p.symbol \notin correlationGroups[j].symbols
          /\ storage.positionMetadata[k].symbol \in correlationGroups[i].symbols})

Violates(rule, p, b) ==
  LET open == p.side = "OPEN" IN
  CASE rule = "signature present" -> p.signature = NoSig
    [] rule = "signature valid" -> p.signature # hmac(API_SECRET, payloadForSigning(p))
    [] rule = "system lock" -> mem.systemLocked
    [] rule = "staleness" -> p.age > staleProposalMs
    [] rule = "allowed symbol" -> p.symbol \notin allowedSymbols
    [] rule = "allowed strategy" -> open /\ p.strategy \notin allowedStrategies
    [] rule = "price" -> ~(p.price > 0)
    [] rule = "structure" -> open /\ ~LegShapeOk(p)
    [] rule = "DTE" ->
         open /\ (Len(p.legs) = 0 \/ p.legs[1].expiration = NoExpiration
                    \/ calculateDTE(p.legs[1].expiration) \notin minDte..maxDte)
    [] rule = "calendar lock" -> open /\ Today \in mem.restrictedDates
    [] rule = "daily loss" -> SeenBreach(b)
    [] rule = "position cap" ->
         open /\ Cardinality({r.symbol : r \in {x \in db.positions : x.quantity # 0}})
                    >= maxOpenPositions
    [] rule = "correlation guard" ->
         open /\ p.context.trend_state \notin {Absent, "neutral"}
              /\ (\E i \in 1..Len(correlationGroups) : p.symbol \in correlationGroups[i].symbols)
              /\ BiasCount(p) >= maxCorrelatedPositions
    [] rule = "concentration" ->
         open /\ Cardinality({r \in db.positions : r.symbol = <<p.symbol, 0>> /\ r.quantity # 0})
                    >= maxConcentrationPerSymbol
    [] rule = "context" ->
         open /\ (p.context.vix = NoVix \/ p.context.vix > 2800
                    \/ p.context.flow_state = "UNKNOWN")

\* the earliest violated rule among those from position `from` on, "none" if none
FirstViolated(from, p, b) ==
  LET idx == {i \in from..Len(RuleOrder) : Violates(RuleOrder[i], p, b)}
  IN IF idx = {} THEN "none" ELSE RuleOrder[CHOOSE i \in idx : \A j \in idx : i <= j]

\* C5: a proposal is rejected with the reason of the earliest rule it violates
\* in the order: signature present, signature valid, system lock, staleness,
\* allowed symbol, allowed strategy (OPEN), price, structure (OPEN), DTE (OPEN),
\* calendar lock (OPEN), daily loss, position cap (OPEN), correlation guard
\* (OPEN), concentration (OPEN), context (OPEN); one that violates none is
\* APPROVED.
C5_FirstFailureWins ==
  [][/\ \A s \in Slots :
          (Free(s) /\ req'[s].pc \in {"sync", "done"} /\ req'[s] # req[s])
            => IF Violates("signature present", req'[s].p, TRUE)
                 THEN req'[s].pc = "done"
                      /\ RuleOf(req'[s].resp.reason.rule) = "signature present"
                 ELSE req'[s].pc = "sync"
     /\ \A s \in Slots :
          EvalStep(s) =>
            \E b \in BOOLEAN :
              /\ RuleOf(req'[s].rejectionReason.rule) = FirstViolated(2, req[s].p, b)
              /\ req'[s].status =
                   IF FirstViolated(2, req[s].p, b) = "none" THEN "APPROVED" ELSE "REJECTED"]_vars

\* C5 witness: a proposal that violates both the position cap and the context
\* rule (VIX 28.01) has been rejected for the position cap
C5_Witness ==
  \E s \in Slots :
    /\ req[s].pc = "done" /\ req[s].resp.code = 403
    /\ req[s].resp.reason.rule = "Max open positions reached"
    /\ req[s].p.context.vix > 2800
    /\ req[s].p.side = "OPEN"


C12_SignatureBindsPayload ==
  [][/\ \A s \in Slots :
          EvalStep(s) =>
            LET p == req[s].p IN
            /\ req'[s].status = "APPROVED" =>
                 p.signature = hmac(API_SECRET, [k \in DOMAIN p \ {"signature"} |-> p[k]])
            /\ \A o \in SignedOriginals :
                 (p.signature = o.signature /\ p # o) =>
                    /\ req'[s].status = "REJECTED"
                    /\ req'[s].rejectionReason.rule = "Invalid signature"
     /\ \A s \in Slots :
          (req[s].pc = "exec" /\ req'[s].pc = "post") =>
             req[s].p.signature =
               hmac(API_SECRET, [k \in DOMAIN req[s].p \ {"signature"} |-> req[s].p[k]])]_vars

\* C12 witness: the signature of a signed OPEN on a body whose context VIX was
\* changed has been answered 403 'Invalid signature'
C12_Witness ==
  \E s \in Slots :
    /\ req[s].pc = "done" /\ req[s].resp.code = 403
    /\ req[s].resp.reason.rule = "Invalid signature"
    /\ req[s].p.signature = GoodOpen(3).signature
    /\ req[s].p.context.vix # GoodOpen(3).context.vix


\* the groups that list a symbol, and the metadata entries of a bias in a group
GroupsListing(symbol) ==
  {i \in 1..Len(correlationGroups) : symbol \in correlationGroups[i].symbols}
EntriesIn(i, bias) ==
  Cardinality({k \in DOMAIN storage.positionMetadata :
     /\ storage.positionMetadata[k].bias = bias
     /\ storage.positionMetadata[k].symbol \in correlationGroups[i].symbols})

\* the rules of the evaluation order that come before position i of RuleOrder
RulesBefore(rule) ==
  {RuleOrder[j] : j \in {k \in 1..Len(RuleOrder) : \A i \in 1..Len(RuleOrder) :
                            RuleOrder[i] = rule => k < i}}
Outcome(s) == RuleOf(req'[s].rejectionReason.rule)
Directional(p) == p.side = "OPEN" /\ p.context.trend_state \notin {"neutral", Absent}

\* C13 as stated: for every group G that lists the symbol, a count >= the limit
\* rejects with a reason naming G and that count
C13_EveryGroupNamed ==
  [][\A s \in Slots :
       (EvalStep(s) /\ Outcome(s) \notin RulesBefore("correlation guard")) =>
          LET p == req[s].p IN
          /\ Directional(p) =>
               \A i \in GroupsListing(p.symbol) :
                 EntriesIn(i, p.context.trend_state) >= maxCorrelatedPositions =>
                    /\ Outcome(s) = "correlation guard"
                    /\ req'[s].rejectionReason.arg.kind = correlationGroups[i].name
                    /\ req'[s].rejectionReason.arg.pct = EntriesIn(i, p.context.trend_state)]_vars

\* C13: an OPEN proposal with a non-neutral bias that reaches the correlation
\* guard is rejected by it exactly when some group listing its symbol holds
\* >= maxCorrelatedPositions metadata entries of that bias; the reason names
\* the first group that lists the symbol and the count in that group; CLOSE
\* and neutral-bias proposals are never rejected by the guard
C13_CorrelationGuard ==
  [][\A s \in Slots :
       (EvalStep(s) /\ Outcome(s) \notin RulesBefore("correlation guard")) =>
          LET p == req[s].p
              bias == p.context.trend_state
              first == CHOOSE i \in GroupsListing(p.symbol) :
                         \A j \in GroupsListing(p.symbol) : i <= j
              hit == Directional(p)
                       /\ \E i \in GroupsListing(p.symbol) :
                            EntriesIn(i, bias) >= maxCorrelatedPositions
          IN /\ hit <=> Outcome(s) = "correlation guard"
             /\ hit => /\ req'[s].status = "REJECTED"
                       /\ req'[s].rejectionReason.arg.kind = correlationGroups[first].name
                       /\ req'[s].rejectionReason.arg.pct = EntriesIn(first, bias)]_vars

\* C13 witness (scenario S2): with two bullish entries in US_INDICES a bullish
\* OPEN on SPY has been answered 403 by the correlation guard
C13_Witness ==
  \E s \in Slots :
    /\ req[s].pc = "done" /\ req[s].resp.code = 403
    /\ req[s].resp.reason.rule = "Correlation Limit Hit"
    /\ req[s].resp.reason.arg = [kind |-> "US_INDICES", pct |-> maxCorrelatedPositions]
    /\ req[s].p.symbol = "SPY" /\ req[s].p.context.trend_state = "bullish"


\* C14: no OPEN proposal is approved while the open positions the Gate tracks
\* (the distinct symbols of the positions snapshot, and the Position Metadata
\* entries) number >= maxTotalPositions
C14_TotalPositionsCeiling ==
  [][\A s \in Slots :
       (/\ EvalStep(s) /\ req[s].p.side = "OPEN"
        /\ Cardinality({r.symbol : r \in {x \in db.positions : x.quantity # 0}})
             >= maxTotalPositions
        /\ Cardinality(DOMAIN storage.positionMetadata) >= maxTotalPositions)
         => req'[s].status # "APPROVED"]_vars


\* the positions of the snapshot that are open on an underlying symbol: the
\* lots of the symbol itself and of every option on it
PositionsOn(symbol) ==
  Cardinality({r \in db.positions : r.symbol[1] = symbol /\ r.quantity # 0})

\* C15: an OPEN proposal is rejected whenever the snapshot holds
\* >= maxConcentrationPerSymbol open positions on its underlying symbol, and
\* the concentration check rejects none while it holds fewer
C15_Concentration ==
  [][\A s \in Slots :
       (EvalStep(s) /\ req[s].p.side = "OPEN") =>
          /\ PositionsOn(req[s].p.symbol) >= maxConcentrationPerSymbol
               => req'[s].status = "REJECTED"
          /\ PositionsOn(req[s].p.symbol) < maxConcentrationPerSymbol
               => Outcome(s) # "concentration"]_vars


ExecStep(s) == req[s].pc = "exec" /\ req'[s].pc = "post"
PlacedOrder == broker'.orders[Len(broker'.orders)]

\* C16: every order submitted to the broker is a limit order (net credit or
\* debit) whose price is the approved proposal's price and is > 0; a proposal
\* without a price > 0, OPEN or CLOSE, is rejected by the evaluation
C16_LimitOrdersOnly ==
  [][\A s \in Slots :
       /\ ExecStep(s) =>
            /\ Len(broker'.orders) = Len(broker.orders) + 1
            /\ PlacedOrder.payload.type \in {"credit", "debit"}
            /\ PlacedOrder.payload.price > 0
            /\ PlacedOrder.payload.price * 10 = req[s].p.price
       /\ (EvalStep(s) /\ ~(req[s].p.price > 0)) => req'[s].status = "REJECTED"]_vars


\* the broker side for a proposal side and a leg side
SideTable ==
  [ps \in {"OPEN", "CLOSE"} |->
     [ls \in {"SELL", "BUY"} |->
        CASE ps = "OPEN" /\ ls = "SELL" -> "sell_to_open"
          [] ps = "OPEN" /\ ls = "BUY" -> "buy_to_open"
          [] ps = "CLOSE" /\ ls = "SELL" -> "buy_to_close"
          [] ps = "CLOSE" /\ ls = "BUY" -> "sell_to_close"]]

OpenOnlyRules ==
  {"allowed strategy", "structure", "DTE", "calendar lock", "position cap",
   "correlation guard", "concentration", "context"}

\* C18: a CLOSE proposal is never rejected by an OPEN-only rule; a validly
\* signed, fresh CLOSE on an allowed symbol with price > 0 is approved
\* whenever the system is not locked and the day's loss is below the limit,
\* whatever its strategy, legs, expiration, date or context
C18_CloseSkipsOpenRules ==
  [][\A s \in Slots :
       (EvalStep(s) /\ req[s].p.side = "CLOSE") =>
          LET p == req[s].p IN
          /\ Outcome(s) \notin OpenOnlyRules
          /\ (/\ p.signature = hmac(API_SECRET, payloadForSigning(p))
              /\ ~mem.systemLocked
              /\ p.age <= staleProposalMs
              /\ p.symbol \in allowedSymbols
              /\ p.price > 0
              /\ (mem.startOfDayEquity - broker.equity) * 10000
                   < maxDailyLossBp * mem.startOfDayEquity)
               => req'[s].status = "APPROVED"]_vars

\* C18 witness: a CLOSE of a strategy that is not allowed, with four far-dated
\* legs and VIX above 28, on a restricted date and with the position cap
\* reached, has been executed
C18_Witness ==
  \E s \in Slots :
    /\ req[s].pc = "done" /\ req[s].resp.code = 200
    /\ req[s].p.side = "CLOSE" /\ req[s].p.strategy \notin allowedStrategies
    /\ Len(req[s].p.legs) = 4 /\ req[s].p.legs[1].expiration > maxDte
    /\ req[s].p.context.vix > 2800
    /\ Today \in mem.restrictedDates
    /\ Cardinality({r.symbol : r \in db.positions}) >= maxOpenPositions


\* C19: an OPEN proposal that reaches structure validation is rejected by it
\* exactly when its legs do not match its strategy: CREDIT_SPREAD 2 legs,
\* IRON_CONDOR 4, IRON_BUTTERFLY 4, RATIO_SPREAD 2 legs of unequal quantity
C19_StructureValidation ==
  [][\A s \in Slots :
       (/\ EvalStep(s) /\ req[s].p.side = "OPEN"
        /\ Outcome(s) \notin RulesBefore("structure")) =>
          LET p == req[s].p
              n == Len(p.legs)
              matches ==
                \/ p.strategy = "CREDIT_SPREAD" /\ n = 2
                \/ p.strategy = "IRON_CONDOR" /\ n = 4
                \/ p.strategy = "IRON_BUTTERFLY" /\ n = 4
                \/ p.strategy = "RATIO_SPREAD" /\ n = 2
                     /\ p.legs[1].quantity # p.legs[2].quantity
          IN /\ ~matches <=> Outcome(s) = "structure"
             /\ ~matches => req'[s].status = "REJECTED"]_vars

\* C19 witness: an OPEN RATIO_SPREAD with two legs of equal quantity has been
\* answered 403 by structure validation
C19_Witness ==
  \E s \in Slots :
    /\ req[s].pc = "done" /\ req[s].resp.code = 403
    /\ req[s].resp.reason.rule = "RATIO_SPREAD must have unequal quantities"
    /\ req[s].p.strategy = "RATIO_SPREAD" /\ Len(req[s].p.legs) = 2


\* C20: an OPEN proposal is approved only if its context carries a flow state
\* other than UNKNOWN; one without a flow state is rejected with a reason and
\* its rejection is in the ledger when it is answered
C20_FlowStateRequired ==
  [][\A s \in Slots :
       /\ (EvalStep(s) /\ req[s].p.side = "OPEN" /\ req'[s].status = "APPROVED")
            => req[s].p.context.flow_state \notin {Absent, "UNKNOWN"}
       /\ (/\ RecordStep(s) /\ req[s].p.side = "OPEN"
           /\ req[s].p.context.flow_state \in {Absent, "UNKNOWN"}
           /\ req[s].p.id \notin DOMAIN db.proposals)
            => /\ req'[s].resp.code = 403
               /\ req'[s].resp.reason.rule # ""
               /\ db'.proposals[req[s].p.id].status = "REJECTED"]_vars


\* C21: an OPEN proposal that passes all earlier checks is accepted by the VIX
\* check with VIX exactly 28, rejected with any VIX above 28 and rejected with
\* no VIX; a CLOSE proposal is never rejected for its VIX
C21_VixBoundary ==
  [][\A s \in Slots :
       EvalStep(s) =>
         LET p == req[s].p
             vixReject == req'[s].rejectionReason.rule \in {"VIX not available", "VIX too high"}
         IN /\ (p.side = "OPEN" /\ Outcome(s) \notin RulesBefore("context")) =>
                 /\ p.context.vix = 2800 => ~vixReject
                 /\ p.context.vix > 2800 =>
                      req'[s].status = "REJECTED"
                        /\ req'[s].rejectionReason.rule = "VIX too high"
                 /\ p.context.vix = NoVix =>
                      req'[s].status = "REJECTED"
                        /\ req'[s].rejectionReason.rule = "VIX not available"
            /\ p.side = "CLOSE" => ~vixReject]_vars

\* C21 witness: an OPEN with VIX exactly 28 was approved and executed
C21_Witness ==
  \E s \in Slots :
    /\ req[s].pc = "done" /\ req[s].resp.code = 200
    /\ req[s].p.side = "OPEN" /\ req[s].p.context.vix = 2800


\* C22: at the freshness check a proposal aged exactly staleProposalMs is not
\* rejected as stale, and one aged staleProposalMs + 1 ms is rejected as stale
C22_StalenessBoundary ==
  [][\A s \in Slots :
       EvalStep(s) =>
         LET p == req[s].p IN
         /\ p.age = staleProposalMs => req'[s].rejectionReason.rule # "Proposal is stale"
         /\ (p.age = staleProposalMs + 1 /\ Outcome(s) \notin RulesBefore("staleness")) =>
              /\ req'[s].status = "REJECTED"
              /\ req'[s].rejectionReason.rule = "Proposal is stale"]_vars

\* C22 witness: a proposal one millisecond past the threshold answered 403 as
\* stale, and the ledger has its rejection
C22_Witness ==
  \E s \in Slots :
    /\ req[s].pc = "done" /\ req[s].resp.code = 403
    /\ req[s].p.age = staleProposalMs + 1
    /\ req[s].resp.reason.rule = "Proposal is stale"
    /\ db.proposals[req[s].p.id].status = "REJECTED"


\* C23: for an OPEN proposal that passes all earlier checks, a first-leg
\* expiration minDte or maxDte days after the day of the evaluation is accepted
\* by the DTE check and one minDte - 1 or maxDte + 1 days after it is rejected,
\* at whatever time of that day the evaluation runs
C23_DteBoundary ==
  [][\A s \in Slots :
       (EvalStep(s) /\ req[s].p.side = "OPEN" /\ Outcome(s) \notin RulesBefore("DTE")) =>
          LET days == req[s].p.legs[1].expiration IN
          /\ days \in {minDte, maxDte} => Outcome(s) # "DTE"
          /\ days \in {minDte - 1, maxDte + 1} =>
               req'[s].status = "REJECTED" /\ Outcome(s) = "DTE"]_vars


\* the Gate operation the documented surface gives each endpoint
DocumentedOperation(path) ==
  CASE path = "/v1/proposal" -> "/process"
    [] path = "/v1/heartbeat" -> "/heartbeat"
    [] path = "/v1/status" -> "/status"
    [] path = "/v1/admin/lock" -> "/lock"
    [] path = "/v1/admin/unlock" -> "/unlock"
    [] path = "/v1/admin/liquidate" -> "/liquidate"
    [] path = "/v1/admin/calendar" -> "/admin/calendar"
    [] path = "/" -> "UI"

\* C24: every endpoint of the documented HTTP surface reaches its Gate
\* operation through the Worker router; POST /v1/admin/calendar with dates D
\* replaces the whole restricted-date set by D, and an OPEN proposal that
\* reaches the calendar check on a restricted date is rejected by it
C24_RouterReachesGate ==
  [][/\ \A r \in HttpRequests :
          WorkerFetch(r) =>
            /\ workerRoute(r.path, r.method) = DocumentedOperation(r.path)
            /\ r.path = "/v1/admin/calendar" =>
                 mem'.restrictedDates = r.dates /\ storage'.restrictedDates = r.dates
     /\ \A s \in Slots :
          (EvalStep(s) /\ req[s].p.side = "OPEN" /\ Today \in mem.restrictedDates
             /\ Outcome(s) \notin RulesBefore("calendar lock"))
            => Outcome(s) = "calendar lock"]_vars


\* C25: last_heartbeat_at, as the status view reports it, never decreases over
\* any sequence of Gate operations, a restart of the Gate instance included
C25_HeartbeatMonotonic ==
  [][mem'.lastHeartbeat >= mem.lastHeartbeat]_vars


\* C26: the day P&L of the end-of-day report is the current equity minus the
\* equity at the start of the trading day, the baseline the daily-loss check
\* used during the day, on the first report run of a day too
C26_EodPnL ==
  [][(EodReport /\ ~Unset(mem.startOfDayEquity)) =>
        \A b1, b2, posOk \in BOOLEAN :
          generateEndOfDayReport(W, b1, b2, posOk, TRUE)
              = [mem |-> mem', db |-> db', storage |-> storage', broker |-> broker']
            => dayPnLDollars(W, b1, b2, posOk) = broker.equity - mem.startOfDayEquity]_vars


\* C27: with forceEodCloseEt absent (null) every scheduler alarm completes
\* without error, leaves the lock state unchanged and re-arms the next alarm
C27_EodDisabled ==
  [][AlarmAt(NoClose) =>
       /\ ~alarm(W, NoClose).error
       /\ alarm(W, NoClose).rearmed
       /\ mem'.systemLocked = mem.systemLocked
       /\ db'.system_status = db.system_status]_vars


\* C28: if the reconciliation fails at any step (balances fetch, positions
\* fetch, rewriting the snapshot) the evaluation still runs, and the checks
\* see the positions snapshot exactly as it was before the evaluation started
C28_SyncFailureKeepsSnapshot ==
  [][\A s \in Slots :
       (req[s].pc = "sync" /\ req'[s].pc # "sync") =>
          /\ req'[s].pc = "eval"
          /\ \A balOk, posOk, delOk, batchOk \in BOOLEAN :
               (/\ ~(balOk /\ posOk /\ delOk /\ batchOk)
                /\ syncAccountStateD1(W, balOk, posOk, delOk, batchOk)
                     = [mem |-> mem', db |-> db', storage |-> storage', broker |-> broker'])
                 => db'.positions = db.positions]_vars


\* C29: signature verification is stable under key reordering: a body that
\* denotes a proposal the Brain signed (over the payload with keys sorted at
\* every depth) is accepted by the signature check whatever the order of its
\* object keys at the top level, inside the legs and inside the context
C29_KeyOrderStable ==
  [][\A s \in Slots :
       (EvalStep(s) /\ req[s].p.signature = hmac(API_SECRET, canonicalPayload(req[s].p)))
          => req'[s].rejectionReason.rule # "Invalid signature"]_vars

FailsBeforeReconciliation(p) ==
  \/ ~verifySignature(p)
  \/ IsStale(p)
  \/ p.symbol \notin allowedSymbols
  \/ OpenOnly(p) /\ p.strategy \notin allowedStrategies
  \/ p.price <= 0
  \/ OpenOnly(p) /\ StructureError(p) # ""
  \/ OpenOnly(p) /\ DteError(p) # ""

\* C31: account reconciliation is step 10 of the evaluation: while the Gate
\* handles a proposal that an earlier check rejects, it makes no broker call
\* and leaves the positions snapshot, the equity cache and start-of-day equity
\* exactly as they were.
C31_EarlyRejectLeavesAccountState ==
  [][\A s \in Slots :
       (req[s].pc = "sync" /\ req'[s].pc = "eval" /\ FailsBeforeReconciliation(req[s].p))
         => /\ db'.positions = db.positions
            /\ mem'.equityCache = mem.equityCache
            /\ mem'.startOfDayEquity = mem.startOfDayEquity]_vars

\* C32: reconciliation is idempotent: a reconciliation whose fetches and
\* statements all succeed, against the broker positions that the previous one
\* saw, leaves the positions snapshot
\* with the same (symbol, quantity, cost_basis, date_acquired) rows, one row
\* for each non-zero broker position, also with several lots of one symbol or
\* a position without an acquisition date.
C32_ReconciliationIdempotent ==
  [][\A s \in Slots :
       (/\ req[s].pc = "sync" /\ req'[s].pc = "eval"
        /\ BatchUnique(getPositions(W))
        /\ syncAccountState(W, TRUE, TRUE)
             = [mem |-> mem', db |-> db', storage |-> storage', broker |-> broker'])
         => /\ db'.positions = db.positions
            /\ Cardinality(db'.positions) = Len(getPositions(W))
            /\ \A i \in 1..Len(getPositions(W)) :
                 \E r \in db'.positions :
                    /\ r.symbol = getPositions(W)[i].symbol
                    /\ r.quantity = getPositions(W)[i].quantity
                    /\ r.cost_basis = getPositions(W)[i].cost_basis
                    /\ getPositions(W)[i].date_acquired # NoDate
                         => r.date_acquired = getPositions(W)[i].date_acquired]_vars

\* the Position Metadata keys whose entry is for (symbol, strategy)
EntriesFor(st, symbol, strategy) ==
  {k \in DOMAIN st.positionMetadata :
     /\ st.positionMetadata[k].symbol = symbol
     /\ st.positionMetadata[k].strategy = strategy}

\* C33: Position Metadata stays in lockstep with orders: an entry is keyed by
\* the broker order id of an approved OPEN; each executed CLOSE for (symbol,
\* strategy) removes exactly one still-present entry of that symbol and
\* strategy, so that n executed OPENs followed by n executed CLOSEs leave none.
C33_MetadataLockstep ==
  [][\A s \in Slots :
       LET p == req[s].p
           before == EntriesFor(storage, p.symbol, p.strategy)
           after == EntriesFor(storage', p.symbol, p.strategy)
       IN (req[s].pc = "post" /\ req'[s].pc = "done") =>
            /\ p.side = "OPEN" =>
                 after = before \cup {req[s].order_id} /\ req[s].order_id \notin before
            /\ (p.side = "CLOSE" /\ before # {}) =>
                 after \subseteq before /\ Cardinality(after) = Cardinality(before) - 1]_vars

\* the entry an executed OPEN has just stored under its broker order id
StoredEntry(s) == storage'.positionMetadata[req[s].order_id]
StoresEntry(s) == req[s].pc = "post" /\ req'[s].pc = "done" /\ req[s].p.side = "OPEN"

\* C34 as stated: for every entry stored in Position Metadata for an approved
\* OPEN proposal, the entry's symbol belongs to some correlation group if and
\* only if the entry's bias is non-neutral.
C34_GroupedIffDirectional ==
  [][\A s \in Slots :
       StoresEntry(s) =>
         (GroupsListing(StoredEntry(s).symbol) # {} <=> StoredEntry(s).bias # "neutral")]_vars

\* C34 (amended): for every entry stored in Position Metadata for an approved
\* OPEN proposal, if the entry's bias is non-neutral then the entry's symbol
\* belongs to some correlation group; the entry carries the proposal's symbol
\* and its trend_state, or "neutral" when the proposal has none.
C34_DirectionalIsGrouped ==
  [][\A s \in Slots :
       StoresEntry(s) =>
         /\ StoredEntry(s).symbol = req[s].p.symbol
         /\ StoredEntry(s).bias =
              (IF req[s].p.context.trend_state = Absent THEN "neutral"
               ELSE req[s].p.context.trend_state)
         /\ StoredEntry(s).bias # "neutral" => GroupsListing(StoredEntry(s).symbol) # {}]_vars

C34_Witness ==
  \E s \in Slots :
    /\ req[s].pc = "done" /\ req[s].resp.code = 200 /\ req[s].p.side = "OPEN"
    /\ req[s].order_id \in DOMAIN storage.positionMetadata
    /\ storage.positionMetadata[req[s].order_id].bias = "bearish"
    /\ storage.positionMetadata[req[s].order_id].symbol = "QQQ"
    /\ GroupsListing("QQQ") # {}

\* the broker orders and the orders rows of a proposal id
BrokerOrdersOf(id) == {i \in 1..Len(broker.orders) : broker.orders[i].proposal = id}
OrderRowsOf(id) == {i \in 1..Len(db.orders) : db.orders[i].proposal_id = id}
Replayed(s) == req[s].pc = "record" /\ req[s].p.id \in DOMAIN db.proposals

\* C35: a proposal id is executed at most once: a validly signed proposal that
\* arrives with an id that already has a row in the proposals ledger is
\* answered with an error, and no second broker order, orders row or Position
\* Metadata entry is created; each id has at most one order and one orders row.
C35_ExecutedAtMostOnce ==
  [][/\ \A id \in DOMAIN db'.proposals :
          /\ Cardinality({i \in 1..Len(broker'.orders) : broker'.orders[i].proposal = id}) <= 1
          /\ Cardinality({i \in 1..Len(db'.orders) : db'.orders[i].proposal_id = id}) <= 1
     /\ \A s \in Slots :
          (Replayed(s) /\ req'[s].pc # "record") =>
             /\ req'[s].pc = "done" /\ req'[s].resp.code = 400
             /\ broker' = broker /\ db' = db /\ storage' = storage]_vars

C35_Witness ==
  \E s \in Slots :
    /\ req[s].pc = "done" /\ req[s].resp.code = 400 /\ verifySignature(req[s].p)
    /\ req[s].status = "APPROVED"
    /\ Cardinality(BrokerOrdersOf(req[s].p.id)) = 1
    /\ Cardinality(OrderRowsOf(req[s].p.id)) = 1

\* C36: in every reachable state, for each correlation group and each
\* non-neutral bias, the number of Position Metadata entries with that bias
\* whose symbol is in the group is at most maxCorrelatedPositions, also when
\* two OPEN proposals are processed concurrently.
C36_CorrelatedEntriesBounded ==
  \A i \in 1..Len(correlationGroups), bias \in {"bullish", "bearish"} :
     EntriesIn(i, bias) <= maxCorrelatedPositions

\* C37: whenever a proposal is answered APPROVED_BUT_EXECUTION_FAILED no order
\* for that proposal exists at the broker; equivalently, once the requests are
\* answered every order the Gate created at the broker has an orders-ledger
\* row, even if a ledger or key-value write fails after the broker accepted.
C37_NoOrderWithoutLedgerRow ==
  /\ \A s \in Slots :
       (req[s].pc = "done" /\ req[s].resp.status = "APPROVED_BUT_EXECUTION_FAILED")
          => BrokerOrdersOf(req[s].p.id) = {}
  /\ (\A s \in Slots : Free(s)) =>
       \A i \in 1..Len(broker.orders) :
          \E j \in 1..Len(db.orders) : db.orders[j].id = broker.orders[i].id

\* the loss of the day as the broker has it
TrueLossBreach ==
  LossBreach([num |-> DayOpenEquity - broker.equity, den |-> DayOpenEquity])

\* C38: a manual unlock does not defeat the daily-loss latch: while the loss
\* fraction is still >= maxDailyLossPercent after an unlock, the next proposal
\* that reaches the daily-loss check is rejected by it and the system is
\* LOCKED again, whether or not the balance fetch of that evaluation succeeds;
\* no proposal is approved.
C38_UnlockKeepsLatch ==
  [][\A s \in Slots :
       (/\ EvalStep(s)
        /\ TrueLossBreach
        /\ storage.startOfDayTimestamp = NoEquity   \* no report has closed the day
        /\ ~mem.systemLocked
        /\ ~FailsBeforeReconciliation(req[s].p)
        /\ ~(OpenOnly(req[s].p) /\ Today \in mem.restrictedDates))
         => /\ req'[s].status = "REJECTED"
            /\ req'[s].rejectionReason.rule = "Daily loss limit exceeded"
            /\ db'.system_status = "LOCKED"]_vars

\* C39: the allow-list, the structure validation and the execution step agree
\* on the set of strategies: every strategy that allowedStrategies lists has a
\* leg structure with which an OPEN proposal passes the structure validation
\* and is turned into a broker order, and no strategy is approved by the
\* evaluation and then refused by the execution.
C39_StrategySetsAgree ==
  [][\A s \in Slots :
       LET p == req[s].p IN
       /\ (EvalStep(s) /\ p.side = "OPEN" /\ p.strategy \in allowedStrategiesWithCalendar) =>
            /\ req'[s].rejectionReason.rule # "Unknown strategy structure"
            /\ \E legs \in LegShapes \cup {CalendarLegs} :
                  StructureError([p EXCEPT !.legs = legs]) = ""
            /\ p.strategy \in supportedStrategies
       /\ (req[s].pc = "exec" /\ req[s].status = "APPROVED") =>
            (p.side = "CLOSE" \/ p.strategy \in supportedStrategies)]_vars

\* C40: a signed proposal has a bounded validity window: a proposal whose
\* timestamp lies more than staleProposalMs ahead of the Gate's clock is
\* rejected by the freshness check, so it is never approved.
C40_FutureTimestampRejected ==
  [][\A s \in Slots :
       (/\ EvalStep(s)
        /\ req[s].p.age < 0 - staleProposalMs
        /\ verifySignature(req[s].p)
        /\ ~mem.systemLocked)
         => req'[s].status = "REJECTED"]_vars

====
